---- MODULE Spec2Model ----
(***************************************************************************)
(* Message processing pipeline of the agent: the message queue and its     *)
(* drain loop, the message validator, the rate limiter, the retry          *)
(* executor (unnamed/part_002) and the KV-backed memory store               *)
(* (src/core/memory.js).                                                    *)
(*                                                                         *)
(* JavaScript runs one synchronous segment at a time: an action of this    *)
(* module is the code that runs from one resumption (a call, or the        *)
(* settling of an awaited promise) to the next await.                      *)
(***************************************************************************)
EXTENDS Integers, Sequences, FiniteSets, TLC

(***************************************************************************)
(* Bounds of the exploration.                                              *)
(***************************************************************************)
\* checkRateLimit calls explored by SpecRL
MaxChecks == 52
\* clock advances explored by SpecRL
MaxTicks == 2
\* Memory calls explored by SpecMem
MaxMemCalls == 2
\* clock advances explored by SpecMem
MaxMemTicks == 1
\* processMessage invocations explored by Spec
MaxCalls == 3
\* messages of one conversation explored by SpecHistory
MaxTurns == 2

(***************************************************************************)
(* Program constants.                                                      *)
(***************************************************************************)
\* Agent.RATE_LIMIT_CONFIG.maxRequests
maxRequests == 50
\* Agent.RATE_LIMIT_CONFIG.timeWindow (milliseconds)
timeWindow == 60000
\* Agent.RETRY_CONFIG.maxRetries
maxRetries == 3
\* Agent.RETRY_CONFIG.baseDelay (milliseconds)
baseDelay == 1000
\* Agent.RETRY_CONFIG.maxDelay (milliseconds)
maxDelay == 5000
\* TTL.CONVERSATION (seconds): 60 * 60 * 24
TTL_CONVERSATION == 86400
\* TTL.LONG_TERM (seconds): 60 * 60 * 24 * 30
TTL_LONG_TERM == 2592000
\* validateMessage: .slice(0, 2000)
MaxTextLength == 2000
\* trimToFarcasterLimit: FARCASTER_LIMIT
FARCASTER_LIMIT == 280

\* The rate-limit keys the agent uses: withRetry is only ever called with 'llm-api'.
Keys == {"llm-api"}

VARIABLES
    now,            \* Date.now(), milliseconds
    rateLimits,     \* Agent.rateLimits: key -> {count, resetTime} or NoLimit
    ticks,          \* number of clock advances so far (bounds the exploration)
    checks,         \* number of checkRateLimit calls so far (bounds the exploration)
    lastCheck,      \* history: the most recent checkRateLimit call and what it saw
    admittedAt,     \* history: key -> (time -> number of calls admitted at that time)
    windowOf,       \* history: key -> start time and call count of the current window
    retry,          \* the withRetry call: its position, attempt, lastError, result
    outcomes,       \* history: what each invocation of the operation did, in order
    rejections,     \* history: number of times checkRateLimit rejected inside withRetry
    sleeps,         \* history: the backoff sleeps of the withRetry call, in order
    kv,             \* the KV namespace: key -> stored string and its expiry
    kvNow,          \* the clock of the KV namespace, seconds
    isAvailable,    \* Memory.isAvailable
    memCalls,       \* the Memory calls in flight (suspended at an await)
    memCount,       \* number of Memory calls made so far (bounds the exploration)
    lastStore,      \* history: the store call that completed most recently
    lastRead,       \* history: the read call that completed most recently, and
                    \* whether it was made after lastStore completed
    kv0,            \* history: the KV namespace as Init left it
    writes,         \* history: the store calls that completed, in completion order
    persist,        \* the Promise.all of the two storeConversation calls of
                    \* processMessageInternal: its position and what it saw
    messageQueue,   \* Agent.messageQueue
    processingQueue,\* Agent.processingQueue (the Draining flag)
    memoryCache,    \* Agent.memoryCache: key -> cached value
    calls,          \* the processMessage invocations so far: status, and for
                    \* one running a drain loop the loop's locals
    lastCall,       \* history: the latest processMessage invocation, its argument
                    \* and what it did before its first await
    lastDrain,      \* history: the drain loop that ended latest and its outcome
    enqueued,       \* history: ids of the messages pushed on the queue, in order
    handed,         \* history: ids of the messages handed to processMessageInternal, in order
    sent,           \* history: ids of the messages sendReply was called for, in order
    cast,           \* the Farcaster agent's call in progress (processMessage or
                    \* handleAction of unnamed/part_001): its position and locals
    probed,         \* history: the actions whose shouldExecute was called, in order
    executed,       \* history: the actions whose execute was called, in order
    published,      \* history: the texts handed to publishCast, in order
    castOutcome,    \* history: what the call returned or raised
    hist,           \* the history-assembling message in progress (getHistory,
                    \* generateResponse, Promise.all of the stores)
    turns           \* history: per generated message, its text and the history
                    \* generateResponse was called with

rlVars == <<ticks, checks, lastCheck, admittedAt, windowOf>>
retryVars == <<retry, outcomes, rejections, sleeps>>
memVars == <<kv, kvNow, isAvailable, memCalls, memCount, lastStore, lastRead, persist,
            kv0, writes>>
queueVars == <<messageQueue, processingQueue, memoryCache, calls, lastCall, lastDrain,
              enqueued, handed, sent>>
castVars == <<cast, probed, executed, published, castOutcome>>
histVars == <<hist, turns>>
vars == <<now, rateLimits, rlVars, retryVars, memVars, queueVars, castVars, histVars>>

(***************************************************************************)
(* Rate limiter (Agent.checkRateLimit).                                    *)
(***************************************************************************)
\* Map.get(key) of a key that was never set
NoLimit == [count |-> 0, resetTime |-> -1]

\* checkRateLimit with the ceiling test off by one (count > maxRequests).
CheckRateLimitOffByOne(limits, key, t) ==
    LET limit == limits[key] IN
    IF limit = NoLimit \/ t > limit.resetTime
    THEN [admit  |-> TRUE,
          limits |-> [limits EXCEPT ![key] =
                         [count |-> 1, resetTime |-> t + timeWindow]]]
    ELSE IF limit.count > maxRequests
    THEN [admit |-> FALSE, limits |-> limits]
    ELSE [admit  |-> TRUE,
          limits |-> [limits EXCEPT ![key].count = limit.count + 1]]

\* checkRateLimit opening a new window already at resetTime (now >= resetTime).
CheckRateLimitEarlyReset(limits, key, t) ==
    LET limit == limits[key] IN
    IF limit = NoLimit \/ t >= limit.resetTime
    THEN [admit  |-> TRUE,
          limits |-> [limits EXCEPT ![key] =
                         [count |-> 1, resetTime |-> t + timeWindow]]]
    ELSE IF limit.count >= maxRequests
    THEN [admit |-> FALSE, limits |-> limits]
    ELSE [admit  |-> TRUE,
          limits |-> [limits EXCEPT ![key].count = limit.count + 1]]

\* checkRateLimit counting the calls it rejects too (count++ before the test).
CheckRateLimitCountsRejected(limits, key, t) ==
    LET limit == limits[key] IN
    IF limit = NoLimit \/ t > limit.resetTime
    THEN [admit  |-> TRUE,
          limits |-> [limits EXCEPT ![key] =
                         [count |-> 1, resetTime |-> t + timeWindow]]]
    ELSE [admit  |-> limit.count < maxRequests,
          limits |-> [limits EXCEPT ![key].count = limit.count + 1]]

\* The map after checkRateLimit(key) at time t, and the boolean it returns.
CheckRateLimit(limits, key, t) ==
    LET limit == limits[key] IN
    IF limit = NoLimit \/ t > limit.resetTime
    THEN [admit  |-> TRUE,
          limits |-> [limits EXCEPT ![key] =
                         [count |-> 1, resetTime |-> t + timeWindow]]]
    ELSE IF limit.count >= maxRequests
    THEN [admit |-> FALSE, limits |-> limits]
    ELSE [admit  |-> TRUE,
          limits |-> [limits EXCEPT ![key].count = limit.count + 1]]

\* The state of the map after construction: new Map()
InitRateLimits == [k \in Keys |-> NoLimit]

(***************************************************************************)
(* Retry executor (Agent.withRetry, Agent.shouldRetry).                    *)
(***************************************************************************)
\* Errors an operation can throw: Error objects with a name, a message (its
\* words) and, for HTTP failures, response.status (0: no response).
NoError == [name |-> "", message |-> <<>>, status |-> 0]
NetworkError == [name |-> "NetworkError", message |-> <<"fetch", "failed">>, status |-> 0]
RateLimitError == [name |-> "Error", message |-> <<"upstream", "rate", "limit", "hit">>, status |-> 0]
HttpError(st) == [name |-> "Error", message |-> <<"request", "failed">>, status |-> st]
PermanentError == [name |-> "Error", message |-> <<"invalid", "api", "key">>, status |-> 0]
\* new Error('Operation failed after all retries')
ExhaustedError == [name |-> "Error", message |-> <<"operation", "failed", "after", "all", "retries">>, status |-> 0]

OpErrors == {NetworkError, RateLimitError, HttpError(429), HttpError(502),
             HttpError(503), HttpError(500), PermanentError}

\* String.prototype.includes, on words: needle occurs contiguously in msg.
Includes(msg, needle) ==
    \E i \in 0..(Len(msg) - Len(needle)) :
        \A j \in 1..Len(needle) : msg[i + j] = needle[j]

\* shouldRetry with the response-status test dropped.
ShouldRetryNoStatus(error) ==
    \/ error.name = "NetworkError"
    \/ Includes(error.message, <<"rate", "limit">>)

\* shouldRetry answering true for every error.
ShouldRetryAlways(error) == TRUE

ShouldRetry(error) ==
    \/ error.name = "NetworkError"
    \/ Includes(error.message, <<"rate", "limit">>)
    \/ (error.status # 0 /\ error.status \in {429, 503, 502})

Min(a, b) == IF a <= b THEN a ELSE b

\* Math.min(maxDelay, baseDelay * Math.pow(2, attempt))
WaitTime(attempt) == Min(maxDelay, baseDelay * 2^attempt)

\* The withRetry call before it is made.
NoRetry == [pc |-> "idle", key |-> "", attempt |-> 0, lastError |-> NoError,
            wakeAt |-> 0, value |-> "", error |-> NoError]

\* The loop head `attempt < maxRetries` tested with <= (one attempt too many).
RetryLoopTopOneMore(r, limits, t) ==
    IF r.attempt <= maxRetries
    THEN LET c == CheckRateLimit(limits, r.key, t) IN
         IF ~c.admit
         THEN [retry  |-> [r EXCEPT !.pc = "sleepLimit",
                                    !.wakeAt = t + WaitTime(r.attempt)],
               limits |-> c.limits]
         ELSE [retry |-> [r EXCEPT !.pc = "op"], limits |-> c.limits]
    ELSE [retry  |-> [r EXCEPT !.pc = "raised",
                               !.error = IF r.lastError # NoError
                                         THEN r.lastError ELSE ExhaustedError],
          limits |-> limits]

\* One pass from the head of the for loop (lines 129-140) to its next await, or
\* past the loop to the final throw (line 157): the call's record and the
\* rate-limit map afterwards.
RetryLoopTop(r, limits, t) ==
    IF r.attempt < maxRetries
    THEN LET c == CheckRateLimit(limits, r.key, t) IN
         IF ~c.admit
         THEN [retry  |-> [r EXCEPT !.pc = "sleepLimit",
                                    !.wakeAt = t + WaitTime(r.attempt)],
               limits |-> c.limits]
         ELSE [retry |-> [r EXCEPT !.pc = "op"], limits |-> c.limits]
    ELSE [retry  |-> [r EXCEPT !.pc = "raised",
                               !.error = IF r.lastError # NoError
                                         THEN r.lastError ELSE ExhaustedError],
          limits |-> limits]

\* The catch block keeping the first error it saw in lastError.
RetryOnErrorKeepFirst(r, e, t) ==
    IF ~ShouldRetry(e)
    THEN [r EXCEPT !.pc = "raised", !.lastError = e, !.error = e]
    ELSE [r EXCEPT !.pc = "sleepError",
                   !.lastError = IF r.lastError # NoError THEN r.lastError ELSE e,
                   !.wakeAt = t + WaitTime(r.attempt)]

\* The operation's promise rejects with error e at time t (lines 141-154).
RetryOnError(r, e, t) ==
    IF ~ShouldRetry(e)
    THEN [r EXCEPT !.pc = "raised", !.lastError = e, !.error = e]
    ELSE [r EXCEPT !.pc = "sleepError", !.lastError = e,
                   !.wakeAt = t + WaitTime(r.attempt)]

RetryIdle ==
    /\ retry = NoRetry
    /\ outcomes = <<>>
    /\ rejections = 0
    /\ sleeps = <<>>

(***************************************************************************)
(* Memory store (src/core/memory.js) over a KV namespace.                  *)
(***************************************************************************)
\* MEMORY_TYPES
MemTypes == {"conversation", "long_term"}
\* User ids the store is called with.
Users == {"alice"}
\* `${type}:${userId}`
MemKey(type, user) == <<type, user>>
KvKeys == {MemKey(type, user) : type \in MemTypes, user \in Users}

\* expirationTtl of a put, by memory type (seconds).
TtlOf(type) == IF type = "conversation" THEN TTL_CONVERSATION ELSE TTL_LONG_TERM

\* Items stored: conversation turns and long-term records.
Turns == {[role |-> "user", content |-> "hello"],
          [role |-> "assistant", content |-> "hi there"]}
Records == {[type |-> "action", action |-> "price"]}
ItemsOf(type) == IF type = "conversation" THEN Turns ELSE Records
NoItem == [role |-> "", content |-> ""]

\* JSON.stringify of one object: its fields in insertion order.
StringifyItem(item) ==
    IF "role" \in DOMAIN item
    THEN <<"{", "role", item.role, "content", item.content, "}">>
    ELSE <<"{", "type", item.type, "action", item.action, "}">>

RECURSIVE StringifyItems(_)
StringifyItems(list) ==
    IF list = <<>> THEN <<>>
    ELSE StringifyItem(Head(list)) \o StringifyItems(Tail(list))

\* JSON.stringify of an array of items, as a sequence of tokens.
Stringify(list) == <<"[">> \o StringifyItems(list) \o <<"]">>

\* JSON.parse of one object's six tokens.
ParseItem(tokens) ==
    [f \in {tokens[2], tokens[4]} |-> IF f = tokens[2] THEN tokens[3] ELSE tokens[5]]

\* JSON.parse of the tokens of an array of items.
Parse(data) ==
    LET inner == SubSeq(data, 2, Len(data) - 1) IN
    [i \in 1..(Len(inner) \div 6) |-> ParseItem(SubSeq(inner, 6 * i - 5, 6 * i))]

\* A key that was never put, or has expired.
NoEntry == [data |-> <<>>, expiresAt |-> 0]

\* kv.get(key) at time t: the stored string, or null (<<>>) when the key is
\* absent or its expirationTtl has elapsed.
KvGet(store, key, t) ==
    IF store[key] # NoEntry /\ t < store[key].expiresAt
    THEN store[key].data ELSE <<>>

\* kv.put(key, data, {expirationTtl: ttl}) at time t (seconds).
KvPut(store, key, data, ttl, t) ==
    [store EXCEPT ![key] = [data |-> data, expiresAt |-> t + ttl]]

\* getConversations / getLongTerm reading an array that misses its last item.
ReadResultDropLast(store, type, user, t, ok) ==
    IF ~ok THEN <<>>
    ELSE LET data == KvGet(store, MemKey(type, user), t) IN
         IF data # <<>>
         THEN SubSeq(Parse(data), 1, Len(Parse(data)) - 1) ELSE <<>>

\* What getConversations / getLongTerm return when kv.get is served at time t
\* (ok), or rejects (~ok).
ReadResult(store, type, user, t, ok) ==
    IF ~ok THEN <<>>
    ELSE LET data == KvGet(store, MemKey(type, user), t) IN
         IF data # <<>> THEN Parse(data) ELSE <<>>

\* storeConversation putting with no expirationTtl re-armed (the old expiry kept
\* when the key exists).
StorePutKeepExpiry(store, type, user, existing, item, t) ==
    LET key == MemKey(type, user)
        put == KvPut(store, key, Stringify(Append(existing, item)), TtlOf(type), t)
    IN
    IF store[key] # NoEntry /\ t < store[key].expiresAt
    THEN [put EXCEPT ![key].expiresAt = store[key].expiresAt]
    ELSE put

\* storeConversation / storeLongTerm putting [item] alone, whatever was read.
StorePutItemOnly(store, type, user, existing, item, t) ==
    KvPut(store, MemKey(type, user), Stringify(<<item>>), TtlOf(type), t)

\* storeConversation / storeLongTerm after `existing` was read: the kv.put of
\* [...existing, item] with the type's TTL, landing at time t.
StorePut(store, type, user, existing, item, t) ==
    KvPut(store, MemKey(type, user), Stringify(Append(existing, item)),
          TtlOf(type), t)

NoStore == [done |-> FALSE, type |-> "", user |-> "", item |-> NoItem, before |-> <<>>,
            at |-> 0, overlap |-> FALSE, failed |-> FALSE, available |-> FALSE]
NoRead == [done |-> FALSE, type |-> "", user |-> "", ret |-> <<>>, at |-> 0,
           failed |-> FALSE, afterStore |-> FALSE]
\* The Promise.all of processMessageInternal before it is made.
NoPersist == [pc |-> "idle", user |-> "", before |-> <<>>, failed |-> FALSE,
              available |-> FALSE]

\* No Memory call has been made; the namespace is empty.
MemIdle ==
    /\ kv = [k \in KvKeys |-> NoEntry]
    /\ kvNow = 0
    /\ isAvailable = FALSE
    /\ memCalls = {}
    /\ memCount = 0
    /\ lastStore = NoStore
    /\ lastRead = NoRead
    /\ persist = NoPersist
    /\ kv0 = kv
    /\ writes = <<>>

(***************************************************************************)
(* Messages and the validator (Agent.validateMessage).                     *)
(***************************************************************************)
\* A property that is absent from the message object.
Undefined == "undefined"
\* !v for a string-or-absent property
Falsy(v) == v \in {Undefined, ""}

\* message.text: a string (its characters), a number, or absent.
Str(chars) == [kind |-> "string", chars |-> chars]
NumberText == [kind |-> "number", chars |-> <<>>]
NoText == [kind |-> "undefined", chars |-> <<>>]
\* message.author: an object with a username (possibly absent), or absent.
Author(username) == [present |-> TRUE, username |-> username]
NoAuthor == [present |-> FALSE, username |-> Undefined]
Message(platform, text, author) ==
    [platform |-> platform, text |-> text, author |-> author]

\* Messages processMessage is called with that pass validation.
ValidInputs ==
    {Message("farcaster", Str(<<" ", "<", "h", "i", ">", " ">>), Author("alice")),
     Message("myspace", Str(<<"h", "i">>), Author("alice"))}

\* Messages processMessage is called with that validateMessage rejects.
InvalidInputs ==
    {Message(Undefined, Str(<<"h", "i">>), Author("alice")),
     Message("farcaster", NoText, Author("alice")),
     Message("farcaster", Str(<<>>), Author("alice")),
     Message("farcaster", NumberText, Author("alice")),
     Message("farcaster", Str(<<"h", "i">>), NoAuthor),
     Message("farcaster", Str(<<"h", "i">>), Author(Undefined))}

Inputs == ValidInputs \cup InvalidInputs

\* String.prototype.trim: leading and trailing spaces removed.
RECURSIVE TrimLeft(_)
TrimLeft(chars) ==
    IF chars # <<>> /\ Head(chars) = " " THEN TrimLeft(Tail(chars)) ELSE chars
RECURSIVE TrimRight(_)
TrimRight(chars) ==
    IF chars # <<>> /\ chars[Len(chars)] = " "
    THEN TrimRight(SubSeq(chars, 1, Len(chars) - 1)) ELSE chars
Trim(chars) == TrimRight(TrimLeft(chars))

\* .replace(/[\\<>]/g, '')
RECURSIVE StripHarmful(_)
StripHarmful(chars) ==
    IF chars = <<>> THEN <<>>
    ELSE IF Head(chars) \in {"\\", "<", ">"} THEN StripHarmful(Tail(chars))
    ELSE <<Head(chars)>> \o StripHarmful(Tail(chars))

\* The sanitized text: trim, strip, slice(0, 2000).
Sanitize(chars) ==
    LET stripped == StripHarmful(Trim(chars)) IN
    SubSeq(stripped, 1, Min(Len(stripped), MaxTextLength))

\* The Errors validateMessage throws.
PlatformRequired == [name |-> "Error", message |-> <<"message", "must", "have", "a", "platform">>, status |-> 0]
TextRequired == [name |-> "Error", message |-> <<"message", "must", "have", "valid", "text", "content">>, status |-> 0]
AuthorRequired == [name |-> "Error", message |-> <<"message", "must", "have", "an", "author", "with", "a", "username">>, status |-> 0]

\* validateMessage without the author test.
ValidateMessageNoAuthorCheck(m) ==
    IF Falsy(m.platform)
    THEN [ok |-> FALSE, error |-> PlatformRequired, message |-> m]
    ELSE IF m.text.kind = "undefined" \/ m.text.chars = <<>> \/ m.text.kind # "string"
    THEN [ok |-> FALSE, error |-> TextRequired, message |-> m]
    ELSE [ok |-> TRUE, error |-> NoError,
          message |-> [m EXCEPT !.text = Str(Sanitize(m.text.chars))]]

\* validateMessage(message): the Error it throws, or the message with its text
\* sanitized in place.
ValidateMessage(m) ==
    IF Falsy(m.platform)
    THEN [ok |-> FALSE, error |-> PlatformRequired, message |-> m]
    ELSE IF (m.text.kind = "undefined" \/ (m.text.kind = "string" /\ m.text.chars = <<>>))
            \/ m.text.kind # "string"
    THEN [ok |-> FALSE, error |-> TextRequired, message |-> m]
    ELSE IF ~m.author.present \/ Falsy(m.author.username)
    THEN [ok |-> FALSE, error |-> AuthorRequired, message |-> m]
    ELSE [ok |-> TRUE, error |-> NoError,
          message |-> [m EXCEPT !.text = Str(Sanitize(m.text.chars))]]

(***************************************************************************)
(* Message queue and drain loop (Agent.processMessage,                     *)
(* Agent.processMessageQueue, Agent.processMessageInternal).               *)
(***************************************************************************)
\* The text of an ActionResult: '' , the queued acknowledgment, or the text
\* produced for message `of` by an action, the LLM or generateResponse.
EmptyText == [kind |-> "empty", of |-> 0]
QueuedText == [kind |-> "queued", of |-> 0]
ActionText(id) == [kind |-> "action", of |-> id]
LlmText(id) == [kind |-> "llm", of |-> id]
GeneratedText(id) == [kind |-> "generated", of |-> id]

Result(text, send) == [text |-> text, shouldSendMessage |-> send]
\* { text: 'Message queued for processing', shouldSendMessage: false }
QueuedAck == Result(QueuedText, FALSE)
\* let result = { text: '', shouldSendMessage: false }
EmptyResult == Result(EmptyText, FALSE)

\* Errors thrown inside processMessageInternal.
UnsupportedPlatform == [name |-> "Error", message |-> <<"unsupported", "platform">>, status |-> 0]
ClientNotInitialized == [name |-> "Error", message |-> <<"no", "client", "initialized">>, status |-> 0]
TransformFailed == [name |-> "Error", message |-> <<"failed", "to", "transform", "message">>, status |-> 0]
\* A collaborator whose code is outside the class (client, actions, LLM,
\* conversation id, long-term context, reply) rejecting.
UpstreamError == [name |-> "Error", message |-> <<"upstream", "failure">>, status |-> 0]

SupportedPlatforms == {"telegram", "farcaster", "twitter"}

\* Errors the LLM operation wrapped by withRetry throws in Spec.
LlmErrors == {HttpError(503), PermanentError}

\* An entry of messageQueue: the validated message, tagged with the number of
\* the processMessage call that pushed it.
QMsg(id, m) ==
    [id |-> id, platform |-> m.platform, text |-> m.text.chars,
     username |-> m.author.username]
NoMsg == [id |-> 0, platform |-> Undefined, text |-> <<>>, username |-> Undefined]

\* Keys of memoryCache: `${username}_${Date.now()}` and `history_${conversationId}`.
ResponseKey(username, t) == <<"response", username, t>>
HistoryKey(conversationId) == <<"history", conversationId, 0>>
NoKey == <<"none", "", 0>>

\* The promise of processMessageInternal once settled.
Fulfilled(value) == [ok |-> TRUE, value |-> value, error |-> NoError]
Rejected(e) == [ok |-> FALSE, value |-> EmptyResult, error |-> e]

\* The locals of one processMessageInternal activation: the await it is
\* suspended at (stage) and what it holds.
NoFrame ==
    [stage |-> "none", cur |-> NoMsg, client |-> "none", cacheKey |-> NoKey,
     retry |-> NoRetry, response |-> EmptyText, conversationId |-> "",
     histCached |-> FALSE, history |-> <<>>, settled |-> Fulfilled(EmptyResult),
     at |-> "none"]

\* One processMessage invocation: draining (with the loop's `result` and the
\* processMessageInternal activation it awaits), returned or raised.
NoCall == [id |-> 0, status |-> "none", result |-> EmptyResult, frame |-> NoFrame]

\* History records: no invocation yet, no drain loop ended yet.
NoLastCall ==
    [id |-> 0, input |-> Message(Undefined, NoText, NoAuthor), status |-> "none",
     ret |-> EmptyResult, error |-> NoError]
NoLastDrain ==
    [id |-> 0, status |-> "none", ret |-> EmptyResult, error |-> NoError,
     last |-> 0]

\* new Map(), Map.prototype.has and Map.prototype.set
EmptyMap == [k \in {} |-> EmptyResult]
MapHas(map, key) == key \in DOMAIN map
MapSet(map, key, val) ==
    [k \in DOMAIN map \cup {key} |-> IF k = key THEN val ELSE map[k]]

\* The state after construction: empty queue, flag false, empty cache.
QueueIdle ==
    /\ messageQueue = <<>>
    /\ processingQueue = FALSE
    /\ memoryCache = EmptyMap
    /\ calls = <<>>
    /\ lastCall = NoLastCall
    /\ lastDrain = NoLastDrain
    /\ enqueued = <<>>
    /\ handed = <<>>
    /\ sent = <<>>

\* processMessage starting a drain loop whatever the flag says.
ShouldDrainAlways(processing) == TRUE
\* if (!this.processingQueue)
ShouldDrain(processing) == ~processing

\* processMessage dropping the message when a drain loop is running.
EnqueueUnlessDraining(q, m, processing) == IF processing THEN q ELSE Append(q, m)
\* this.messageQueue.push(validatedMessage)
Enqueue(q, m, processing) == Append(q, m)

\* The drain loop taking the newest message (pop) instead of the oldest.
DequeueNewest(q) ==
    [message |-> q[Len(q)], rest |-> SubSeq(q, 1, Len(q) - 1)]
\* this.messageQueue.shift()
Dequeue(q) == [message |-> Head(q), rest |-> Tail(q)]

\* processMessageInternal(message) is called: it runs to its first await,
\* initializeClient(message.platform).
EnterInternal(m) == [NoFrame EXCEPT !.stage = "client", !.cur = m]

\* processMessageInternal returns value / rethrows e from its catch block
\* (at: the await it was at, history only).
Resolve(f, value) ==
    [NoFrame EXCEPT !.stage = "settled", !.cur = f.cur, !.settled = Fulfilled(value),
                    !.at = f.stage]
Reject(f, e) ==
    [NoFrame EXCEPT !.stage = "settled", !.cur = f.cur, !.settled = Rejected(e),
                    !.at = f.stage]

(***************************************************************************)
(* The Farcaster agent (unnamed/part_001): processMessage, handleAction,   *)
(* trimToFarcasterLimit.                                                   *)
(***************************************************************************)
\* n characters, none of them a period.
Fill(n) == [i \in 1..n |-> "a"]

\* Reply texts an action or the LLM produces: short, exactly at the limit, one
\* over it without a period, over it with a sentence ending inside the limit,
\* over it with its only period at index 0.
Texts ==
    {Fill(2) \o <<".">>,
     Fill(FARCASTER_LIMIT),
     Fill(FARCASTER_LIMIT + 1),
     Fill(99) \o <<".">> \o Fill(200),
     <<".">> \o Fill(FARCASTER_LIMIT + 19)}

\* String.prototype.lastIndexOf(ch): 0-based, -1 when absent.
LastIndexOf(text, ch) ==
    LET at == {i \in 1..Len(text) : text[i] = ch} IN
    IF at = {} THEN -1 ELSE (CHOOSE i \in at : \A j \in at : j <= i) - 1

\* trimToFarcasterLimit(text)
TrimToFarcasterLimit(text) ==
    IF Len(text) <= FARCASTER_LIMIT THEN text
    ELSE LET trimmed == SubSeq(text, 1, FARCASTER_LIMIT)
             lastPeriod == LastIndexOf(trimmed, ".") IN
         IF lastPeriod > 0 THEN SubSeq(trimmed, 1, lastPeriod + 1) ELSE trimmed

\* Object.values(this.actions): the registered actions, in registration order.
Actions == <<"price", "news">>
ActionIndexes == 1..Len(Actions)

\* Messages the Farcaster agent is called with: the text, the author's fid
\* (possibly absent), and for each registered action what its
\* shouldExecute(text) answers.
CastInputs ==
    [text : {<<"g", "m">>}, fid : {Undefined, "alice"},
     matches : [ActionIndexes -> BOOLEAN]]

\* Errors of the Farcaster agent.
MissingFid == [name |-> "Error", message |-> <<"invalid", "message", "format">>, status |-> 0]
ActionFailed == [name |-> "Error", message |-> <<"action", "failed">>, status |-> 0]
PublishFailed == [name |-> "Error", message |-> <<"failed", "to", "publish", "cast">>, status |-> 0]
LlmFailed == [name |-> "Error", message |-> <<"openrouter", "api", "error">>, status |-> 0]

\* { text: 'Sorry, that action failed' } and { text: `Unknown command /${name}` }
ApologyText == <<"sorry", "that", "action", "failed">>
UnknownCommandText == <<"unknown", "command">>

\* No call of the Farcaster agent has been made.
NoCast ==
    [pc |-> "idle", via |-> "", text |-> <<>>, fid |-> Undefined,
     matches |-> [i \in ActionIndexes |-> FALSE], idx |-> 0, context |-> <<>>,
     response |-> <<>>, storing |-> NoItem, type |-> "", existing |-> <<>>,
     failedAction |-> FALSE]
NoOutcome == [status |-> "none", text |-> <<>>, error |-> NoError]

CastIdle ==
    /\ cast = NoCast
    /\ probed = <<>>
    /\ executed = <<>>
    /\ published = <<>>
    /\ castOutcome = NoOutcome

\* No message has gone through getHistory yet.
NoHist == [pc |-> "idle", count |-> 0, text |-> "", history |-> <<>>]
HistIdle ==
    /\ hist = NoHist
    /\ turns = <<>>

(***************************************************************************)
(* SpecRL: checkRateLimit called at arbitrary moments of an advancing      *)
(* clock.                                                                  *)
(***************************************************************************)
NoCheck == [key |-> "", at |-> 0, admit |-> FALSE, before |-> NoLimit, nth |-> 0]
NoWindow == [start |-> -1, calls |-> 0]

\* Clock advances explored: one millisecond, or a whole window.
TickSteps == {1, timeWindow}

\* Sum of f over the finite set S of its arguments.
RECURSIVE SumOver(_, _)
SumOver(f, S) ==
    IF S = {} THEN 0
    ELSE LET x == CHOOSE y \in S : TRUE IN f[x] + SumOver(f, S \ {x})

\* History only: the window a call at time t falls in, counted by the clock
\* alone (a window opens at the first call, and at the first call made more
\* than timeWindow after the previous opening).
WindowAfterCall(w, t) ==
    IF w = NoWindow \/ t - w.start > timeWindow
    THEN [start |-> t, calls |-> 1]
    ELSE [w EXCEPT !.calls = w.calls + 1]

\* History only: one more admitted call at time t.
CountAdmitted(f, t) ==
    [u \in DOMAIN f \cup {t} |-> (IF u \in DOMAIN f THEN f[u] ELSE 0)
                                  + (IF u = t THEN 1 ELSE 0)]

RLHistInit ==
    /\ ticks = 0
    /\ checks = 0
    /\ lastCheck = NoCheck
    /\ admittedAt = [k \in Keys |-> [u \in {} |-> 0]]
    /\ windowOf = [k \in Keys |-> NoWindow]

InitRL ==
    /\ now = 0
    /\ rateLimits = InitRateLimits
    /\ RLHistInit
    /\ RetryIdle
    /\ MemIdle
    /\ QueueIdle
    /\ CastIdle
    /\ HistIdle

\* A call of checkRateLimit(key).
RLCheck(key) ==
    /\ checks < MaxChecks
    /\ LET r == CheckRateLimit(rateLimits, key, now)
           w == WindowAfterCall(windowOf[key], now)
       IN /\ rateLimits' = r.limits
          /\ windowOf' = [windowOf EXCEPT ![key] = w]
          /\ lastCheck' = [key |-> key, at |-> now, admit |-> r.admit,
                           before |-> rateLimits[key], nth |-> w.calls]
          /\ admittedAt' = IF r.admit
                           THEN [admittedAt EXCEPT ![key] = CountAdmitted(@, now)]
                           ELSE admittedAt
    /\ checks' = checks + 1
    /\ UNCHANGED <<now, ticks, retryVars, memVars, queueVars, castVars, histVars>>

\* Time passes.
RLTick(d) ==
    /\ ticks < MaxTicks
    /\ now' = now + d
    /\ ticks' = ticks + 1
    /\ UNCHANGED <<rateLimits, checks, lastCheck, admittedAt, windowOf, retryVars, memVars, queueVars, castVars, histVars>>

NextRL ==
    \/ \E key \in Keys : RLCheck(key)
    \/ \E d \in TickSteps : RLTick(d)

SpecRL == InitRL /\ [][NextRL]_vars

\* C7: counting from the call that opens a window (no window, or more than
\* timeWindow after the previous opening), the calls numbered 1..maxRequests
\* made within timeWindow are admitted and call maxRequests+1 is rejected; a
\* rejected call leaves the key's count and resetTime as they were; the call
\* that opens a window is admitted and leaves count = 1, resetTime = now +
\* timeWindow.
RateLimitCeiling ==
    lastCheck.key \in Keys =>
        /\ lastCheck.admit <=> lastCheck.nth <= maxRequests
        /\ ~lastCheck.admit => rateLimits[lastCheck.key] = lastCheck.before
        /\ lastCheck.nth = 1 =>
              rateLimits[lastCheck.key] =
                  [count |-> 1, resetTime |-> lastCheck.at + timeWindow]

\* C7 witness: a window was filled, its call maxRequests+1 was made (52 calls in
\* all), the window elapsed and the next call opened a fresh one.
RateLimitCeilingWitness ==
    /\ lastCheck.nth = 1
    /\ lastCheck.admit
    /\ lastCheck.before.count = maxRequests
    /\ checks = maxRequests + 2

\* C8 as stated (a sliding window): in every interval of length timeWindow, for
\* every key, at most maxRequests calls are admitted.
SlidingWindowBound ==
    \A k \in Keys : \A t \in DOMAIN admittedAt[k] :
        SumOver(admittedAt[k],
                {u \in DOMAIN admittedAt[k] : t <= u /\ u < t + timeWindow})
            <= maxRequests

\* C8 amended (a fixed window): for every key, from the call that opens a
\* window up to timeWindow later, at most maxRequests calls are admitted.
FixedWindowBound ==
    \A k \in Keys :
        windowOf[k] # NoWindow =>
            SumOver(admittedAt[k],
                    {u \in DOMAIN admittedAt[k] : u >= windowOf[k].start})
                <= maxRequests

\* C8 witness: a window holds maxRequests admitted calls and one more call was
\* made in it.
FixedWindowBoundWitness ==
    \E k \in Keys :
        /\ windowOf[k].calls > maxRequests
        /\ SumOver(admittedAt[k],
                   {u \in DOMAIN admittedAt[k] : u >= windowOf[k].start})
               = maxRequests

\* C22: every entry of the rate-limit map has 1 <= count <= maxRequests; a
\* call that finds no entry, or finds now > resetTime, is admitted and leaves
\* count = 1 with a window starting now; every other admitted call leaves
\* count one higher and resetTime as it was; a rejected call leaves the entry
\* as it was.
RateLimitWindowInvariant ==
    /\ \A k \in Keys :
          rateLimits[k] # [count |-> 0, resetTime |-> -1] =>
              (1 <= rateLimits[k].count /\ rateLimits[k].count <= maxRequests)
    /\ lastCheck.key \in Keys =>
          LET before == lastCheck.before
              after == rateLimits[lastCheck.key]
              fresh == (before = [count |-> 0, resetTime |-> -1]
                        \/ lastCheck.at > before.resetTime) IN
          /\ fresh => (/\ lastCheck.admit
                       /\ after.count = 1
                       /\ after.resetTime = lastCheck.at + timeWindow)
          /\ (~fresh /\ lastCheck.admit) =>
                (/\ after.count = before.count + 1
                 /\ after.count # 1
                 /\ after.resetTime = before.resetTime)
          /\ ~lastCheck.admit => after = before

\* C22 witness: the entry stands at the ceiling and the latest call, made
\* within its window, was rejected and left it there.
RateLimitWindowInvariantWitness ==
    \E k \in Keys :
        /\ lastCheck.key = k
        /\ ~lastCheck.admit
        /\ lastCheck.at <= rateLimits[k].resetTime
        /\ rateLimits[k].count = maxRequests
        /\ lastCheck.before.count = maxRequests

(***************************************************************************)
(* SpecRetry: one withRetry(operation, 'llm-api') call, from a rate-limit  *)
(* map the agent can have reached, with an operation that on each          *)
(* invocation returns or throws one of OpErrors.                           *)
(***************************************************************************)
\* What one invocation of the operation did.
Returned(v) == [ok |-> TRUE, value |-> v, error |-> NoError]
Threw(e) == [ok |-> FALSE, value |-> "", error |-> e]

\* Values the operation returns.
OpValues == {"completion"}
\* How long an invocation of the operation takes, and how late a timer fires (ms).
Delays == {0, 1}

\* Rate-limit entries withRetry can find at time t: none, or a window opened
\* at most timeWindow ago holding 1, maxRequests-1 or maxRequests calls.
LimitsAt(t) ==
    {NoLimit} \cup
    {[count |-> c, resetTime |-> r] :
        c \in {1, maxRequests - 1, maxRequests},
        r \in {t + 1, t + baseDelay + 1, t + timeWindow}}

InitRetry ==
    /\ now = timeWindow
    /\ rateLimits \in [Keys -> LimitsAt(timeWindow)]
    /\ RLHistInit
    /\ RetryIdle
    /\ MemIdle
    /\ QueueIdle
    /\ CastIdle
    /\ HistIdle

\* History only: the sleep a record entered, if it is sleeping.
SleepsAfter(r, t) ==
    IF r.pc \in {"sleepLimit", "sleepError"}
    THEN Append(sleeps, r.wakeAt - t) ELSE sleeps

\* withRetry(operation, key) is called: runs to its first await.
WithRetryCall(key) ==
    /\ retry.pc = "idle"
    /\ LET n == RetryLoopTop([NoRetry EXCEPT !.key = key], rateLimits, now) IN
        /\ retry' = n.retry
        /\ rateLimits' = n.limits
        /\ rejections' = rejections + (IF n.retry.pc = "sleepLimit" THEN 1 ELSE 0)
        /\ sleeps' = SleepsAfter(n.retry, now)
    /\ UNCHANGED <<now, outcomes, rlVars, memVars, queueVars, castVars, histVars>>

\* A backoff timer fires: attempt++ and the next pass of the loop.
RetryWake(late) ==
    /\ retry.pc \in {"sleepLimit", "sleepError"}
    /\ now' = retry.wakeAt + late
    /\ LET n == RetryLoopTop([retry EXCEPT !.attempt = @ + 1], rateLimits, now') IN
        /\ retry' = n.retry
        /\ rateLimits' = n.limits
        /\ rejections' = rejections + (IF n.retry.pc = "sleepLimit" THEN 1 ELSE 0)
        /\ sleeps' = SleepsAfter(n.retry, now')
    /\ UNCHANGED <<outcomes, rlVars, memVars, queueVars, castVars, histVars>>

\* The awaited operation() resolves with v: withRetry returns it.
RetryOpReturns(v, d) ==
    /\ retry.pc = "op"
    /\ now' = now + d
    /\ retry' = [retry EXCEPT !.pc = "returned", !.value = v]
    /\ outcomes' = Append(outcomes, Returned(v))
    /\ UNCHANGED <<rateLimits, rejections, sleeps, rlVars, memVars, queueVars, castVars, histVars>>

\* The awaited operation() rejects with e: the catch block.
RetryOpThrows(e, d) ==
    /\ retry.pc = "op"
    /\ now' = now + d
    /\ retry' = RetryOnError(retry, e, now')
    /\ outcomes' = Append(outcomes, Threw(e))
    /\ sleeps' = SleepsAfter(retry', now')
    /\ UNCHANGED <<rateLimits, rejections, rlVars, memVars, queueVars, castVars, histVars>>

NextRetry ==
    \/ \E key \in Keys : WithRetryCall(key)
    \/ \E late \in Delays : RetryWake(late)
    \/ \E v \in OpValues, d \in Delays : RetryOpReturns(v, d)
    \/ \E e \in OpErrors, d \in Delays : RetryOpThrows(e, d)

SpecRetry == InitRetry /\ [][NextRetry]_vars

\* The errors C9 calls retryable: NetworkError, a message containing 'rate
\* limit', or response status 429, 502, 503.
RetryableErrors ==
    {NetworkError, RateLimitError, HttpError(429), HttpError(502), HttpError(503)}

\* C9: while the rate limiter has admitted every time, (a) an operation whose
\* first invocation throws a non-retryable error is invoked once, withRetry
\* raises that error and has not slept; (b) the operation is never invoked more
\* than maxRetries times; (c) withRetry gives up only on a non-retryable error
\* or after maxRetries invocations, so maxRetries-1 retryable errors do not end
\* it; (d) an invocation that succeeds is the last one and withRetry returns
\* its value.
RetryContract ==
    rejections = 0 =>
        /\ Len(outcomes) <= maxRetries
        /\ (outcomes # <<>> /\ ~outcomes[1].ok
                /\ outcomes[1].error \notin RetryableErrors) =>
              /\ Len(outcomes) = 1
              /\ retry.pc = "raised"
              /\ retry.error = outcomes[1].error
              /\ sleeps = <<>>
        /\ retry.pc = "raised" =>
              /\ outcomes # <<>>
              /\ ~outcomes[Len(outcomes)].ok
              /\ \/ outcomes[Len(outcomes)].error \notin RetryableErrors
                 \/ Len(outcomes) = maxRetries
        /\ \A n \in 1..Len(outcomes) :
              outcomes[n].ok =>
                  /\ n = Len(outcomes)
                  /\ retry.pc = "returned"
                  /\ retry.value = outcomes[n].value

\* C9 witness: maxRetries-1 retryable errors, then a success on invocation
\* maxRetries, returned by withRetry, with no rate-limit rejection.
RetryContractWitness ==
    /\ rejections = 0
    /\ Len(outcomes) = maxRetries
    /\ \A n \in 1..(maxRetries - 1) :
          ~outcomes[n].ok /\ outcomes[n].error \in RetryableErrors
    /\ outcomes[maxRetries].ok
    /\ retry.pc = "returned"
    /\ Len(sleeps) = maxRetries - 1

\* C19: a rate-limiter rejection does not count as a failed try: withRetry
\* never fails without having invoked the operation at least once, and when it
\* gives up on a retryable error the operation has been invoked maxRetries
\* times, however many times checkRateLimit rejected.
RejectionsDoNotCount ==
    retry.pc = "raised" =>
        /\ outcomes # <<>>
        /\ ~outcomes[Len(outcomes)].ok
        /\ outcomes[Len(outcomes)].error \in RetryableErrors =>
              Len(outcomes) = maxRetries

\* C20: when the operation has been invoked maxRetries times and has raised a
\* retryable error each time, withRetry raises the error of the last
\* invocation.
LastErrorSurfaces ==
    (/\ retry.pc = "raised"
     /\ Len(outcomes) = maxRetries
     /\ \A n \in 1..maxRetries :
           ~outcomes[n].ok /\ outcomes[n].error \in RetryableErrors)
        => retry.error = outcomes[maxRetries].error

\* C20 witness: withRetry has raised after maxRetries invocations that threw
\* retryable errors, the last one different from the two before it.
LastErrorSurfacesWitness ==
    /\ retry.pc = "raised"
    /\ Len(outcomes) = maxRetries
    /\ \A n \in 1..maxRetries :
          ~outcomes[n].ok /\ outcomes[n].error \in RetryableErrors
    /\ outcomes[maxRetries].error # outcomes[1].error
    /\ outcomes[maxRetries].error # outcomes[maxRetries - 1].error
    /\ retry.error = outcomes[maxRetries].error

\* The steps withRetry waits for: a backoff timer firing, the operation
\* settling.
RetryProgress ==
    \/ \E late \in Delays : RetryWake(late)
    \/ \E v \in OpValues, d \in Delays : RetryOpReturns(v, d)
    \/ \E e \in OpErrors, d \in Delays : RetryOpThrows(e, d)

\* SpecRetry with every sleep and every invocation of the operation ending.
SpecRetryFair == InitRetry /\ [][NextRetry]_vars /\ WF_vars(RetryProgress)

\* C24: a withRetry call returns or raises; it makes at most maxRetries loop
\* iterations (each one a rate-limit rejection or an invocation of the
\* operation), so at most maxRetries invocations; and every step that invokes
\* the operation has just had checkRateLimit admit on the call's key: the
\* key's entry was opened afresh at that moment, or was below the ceiling
\* inside its window and has been counted up by one.
RetryTerminates ==
    /\ (retry.pc # "idle") ~> (retry.pc \in {"returned", "raised"})
    /\ [](/\ rejections + Len(outcomes) <= maxRetries
          /\ Len(outcomes) <= maxRetries)
    /\ [][(retry'.pc = "op" /\ retry.pc # "op") =>
            LET before == rateLimits[retry'.key]
                after == rateLimits'[retry'.key]
                fresh == (before = [count |-> 0, resetTime |-> -1]
                          \/ now' > before.resetTime) IN
            /\ retry'.key \in Keys
            /\ fresh => after = [count |-> 1, resetTime |-> now' + timeWindow]
            /\ ~fresh => (/\ before.count < maxRequests
                          /\ after = [count |-> before.count + 1,
                                      resetTime |-> before.resetTime])]_vars

\* C24 witness: withRetry has ended after maxRetries iterations, some of them
\* rate-limit rejections and some invocations of the operation.
RetryTerminatesWitness ==
    /\ retry.pc = "raised"
    /\ rejections >= 1
    /\ Len(outcomes) >= 1
    /\ rejections + Len(outcomes) = maxRetries

(***************************************************************************)
(* SpecMem: calls of one Memory instance, suspended at kv.get and kv.put,  *)
(* interleaving with each other and with the clock; the backend may fail.  *)
(***************************************************************************)
\* Clock advances explored: one second, and each TTL.
MemTickSteps == {1, TTL_CONVERSATION, TTL_LONG_TERM}

\* The item an earlier request left under a key of the given type.
EarlierItem(type) ==
    IF type = "conversation" THEN [role |-> "user", content |-> "hello"]
    ELSE [type |-> "action", action |-> "price"]

\* What a key can hold when this Memory instance is constructed (the
\* namespace outlives the worker's requests): nothing, or one item an earlier
\* storeConversation / storeLongTerm put, one second short of its expiry.
EarlierEntries(key) ==
    {NoEntry, [data |-> Stringify(<<EarlierItem(key[1])>>), expiresAt |-> 1]}

\* new Memory(env): isAvailable = Boolean(env?.AGENT_KV), binding present or not.
InitMem ==
    /\ now = 0
    /\ kvNow = 0
    /\ rateLimits = InitRateLimits
    /\ RLHistInit
    /\ RetryIdle
    /\ kv \in {f \in [KvKeys -> UNION {EarlierEntries(k) : k \in KvKeys}] :
                  \A k \in KvKeys : f[k] \in EarlierEntries(k)}
    /\ isAvailable \in BOOLEAN
    /\ memCalls = {}
    /\ memCount = 0
    /\ lastStore = NoStore
    /\ lastRead = NoRead
    /\ persist = NoPersist
    /\ kv0 = kv
    /\ writes = <<>>
    /\ QueueIdle
    /\ CastIdle
    /\ HistIdle

\* The store calls in flight on the key of (type, user).
WritersOf(type, user) ==
    {c \in memCalls : c.op = "store" /\ c.type = type /\ c.user = user}

\* storeConversation(user, item) / storeLongTerm(user, item) is called: returns
\* at once when unavailable, else runs to the await of kv.get.
MemStoreCall(type, user, item) ==
    /\ memCount < MaxMemCalls
    /\ memCount' = memCount + 1
    /\ IF ~isAvailable
       THEN /\ lastStore' = [NoStore EXCEPT !.done = TRUE, !.type = type,
                                            !.user = user, !.item = item, !.at = kvNow]
            /\ lastRead' = [lastRead EXCEPT !.afterStore = FALSE]
            /\ UNCHANGED memCalls
       ELSE /\ memCalls' =
                 {IF c \in WritersOf(type, user) THEN [c EXCEPT !.overlap = TRUE] ELSE c :
                      c \in memCalls}
                 \cup {[id |-> memCount + 1, op |-> "store", type |-> type,
                        user |-> user, item |-> item, pc |-> "get",
                        existing |-> <<>>, before |-> <<>>,
                        overlap |-> WritersOf(type, user) # {},
                        failed |-> FALSE, afterStore |-> FALSE]}
            /\ UNCHANGED <<lastStore, lastRead>>
    /\ UNCHANGED <<queueVars, now, kvNow, rateLimits, rlVars, retryVars, kv, isAvailable,
                   persist, kv0, writes, castVars, histVars>>

\* getConversations(user) / getLongTerm(user) is called.
MemReadCall(type, user) ==
    /\ memCount < MaxMemCalls
    /\ memCount' = memCount + 1
    /\ IF ~isAvailable
       THEN /\ lastRead' = [NoRead EXCEPT !.done = TRUE, !.type = type,
                                          !.user = user, !.at = kvNow,
                                          !.afterStore = lastStore.done]
            /\ UNCHANGED memCalls
       ELSE /\ memCalls' = memCalls \cup
                 {[id |-> memCount + 1, op |-> "read", type |-> type,
                   user |-> user, item |-> NoItem, pc |-> "get",
                   existing |-> <<>>, before |-> <<>>, overlap |-> FALSE,
                   failed |-> FALSE, afterStore |-> lastStore.done]}
            /\ UNCHANGED lastRead
    /\ UNCHANGED <<queueVars, now, kvNow, rateLimits, rlVars, retryVars, kv, isAvailable,
                   lastStore, persist, kv0, writes, castVars, histVars>>

\* History only: a backend failure during the Promise.all in progress.
PersistAfter(ok) ==
    IF persist.pc = "storing" THEN [persist EXCEPT !.failed = @ \/ ~ok] ELSE persist

\* The awaited kv.get of call c settles (ok: served now; ~ok: rejects). A read
\* returns; a store goes on to its kv.put.
MemGetSettles(c, ok) ==
    /\ c \in memCalls
    /\ c.pc = "get"
    /\ LET list == ReadResult(kv, c.type, c.user, kvNow, ok) IN
       IF c.op = "read"
       THEN /\ memCalls' = memCalls \ {c}
            /\ lastRead' = [done |-> TRUE, type |-> c.type, user |-> c.user,
                            ret |-> list, at |-> kvNow, failed |-> ~ok,
                            afterStore |-> c.afterStore]
            /\ UNCHANGED lastStore
       ELSE /\ memCalls' = (memCalls \ {c}) \cup
                 {[c EXCEPT !.pc = "put", !.existing = list,
                            !.before = ReadResult(kv, c.type, c.user, kvNow, TRUE),
                            !.failed = ~ok]}
            /\ UNCHANGED <<lastStore, lastRead>>
    /\ persist' = PersistAfter(ok)
    /\ UNCHANGED <<queueVars, now, kvNow, rateLimits, rlVars, retryVars, kv, isAvailable,
                   memCount, kv0, writes, castVars, histVars>>

\* The awaited kv.put of store call c settles (ok: lands now; ~ok: rejects and
\* the catch logs it). The store call returns.
PutSettles(c, ok) ==
    /\ c \in memCalls
    /\ c.pc = "put"
    /\ kv' = IF ok THEN StorePut(kv, c.type, c.user, c.existing, c.item, kvNow) ELSE kv
    /\ memCalls' = {IF d.op = "read" THEN [d EXCEPT !.afterStore = FALSE] ELSE d :
                       d \in memCalls \ {c}}
    /\ lastStore' = [done |-> TRUE, type |-> c.type, user |-> c.user, item |-> c.item,
                     before |-> c.before, at |-> kvNow, overlap |-> c.overlap,
                     failed |-> c.failed \/ ~ok, available |-> TRUE]
    /\ lastRead' = [lastRead EXCEPT !.afterStore = FALSE]
    /\ persist' = PersistAfter(ok)
    /\ UNCHANGED <<queueVars, now, kvNow, rateLimits, rlVars, retryVars, isAvailable,
                   memCount, kv0, castVars, histVars>>

\* The same, the history of completed store calls left as it is.
MemPutSettles(c, ok) == PutSettles(c, ok) /\ UNCHANGED writes

\* Time passes.
MemTick(d) ==
    /\ ticks < MaxMemTicks
    /\ kvNow' = kvNow + d
    /\ ticks' = ticks + 1
    /\ UNCHANGED <<now, rateLimits, checks, lastCheck, admittedAt, windowOf, retryVars,
                   kv, isAvailable, memCalls, memCount, lastStore, lastRead, persist,
                   kv0, writes, queueVars, castVars, histVars>>

NextMem ==
    \/ \E type \in MemTypes, user \in Users :
          \E item \in ItemsOf(type) : MemStoreCall(type, user, item)
    \/ \E type \in MemTypes, user \in Users : MemReadCall(type, user)
    \/ \E c \in memCalls, ok \in BOOLEAN : MemGetSettles(c, ok)
    \/ \E c \in memCalls, ok \in BOOLEAN : MemPutSettles(c, ok)
    \/ \E d \in MemTickSteps : MemTick(d)

SpecMem == InitMem /\ [][NextMem]_vars

\* The most recent store call to complete had an available backend, no failing
\* kv.get or kv.put, and no other writer of its key in flight while it ran.
CleanStore ==
    /\ lastStore.done
    /\ lastStore.available
    /\ ~lastStore.overlap
    /\ ~lastStore.failed

\* 24 hours for conversations, 30 days for long-term records, in seconds.
ClaimTtl(type) ==
    IF type = "conversation" THEN 24 * 60 * 60 ELSE 30 * 24 * 60 * 60

\* What C10 says a read served at time t returns after that store: the list
\* read before it followed by its item, until the TTL has elapsed since it.
ExpectedAfterStore(t) ==
    IF t < lastStore.at + ClaimTtl(lastStore.type)
    THEN Append(lastStore.before, lastStore.item)
    ELSE <<>>

\* C10: after a store (storeConversation or storeLongTerm) completed with an
\* available, non-failing backend and no concurrent writer, a read of that
\* user's record returns the turns read before the store, in their order,
\* followed by the stored item, as long as less than the TTL (24 h, 30 days)
\* has passed since that write, and the empty list once the TTL has elapsed;
\* this holds both for the state of the namespace and for every read call
\* made after the store completed.
MemoryRoundTrip ==
    CleanStore =>
        /\ ReadResult(kv, lastStore.type, lastStore.user, kvNow, TRUE)
              = ExpectedAfterStore(kvNow)
        /\ (/\ lastRead.afterStore
            /\ ~lastRead.failed
            /\ lastRead.type = lastStore.type
            /\ lastRead.user = lastStore.user)
              => lastRead.ret = ExpectedAfterStore(lastRead.at)

\* C10 witness: a turn was appended to a record that had one second left, and
\* a getConversations call made after that store, once the old expiry had
\* passed, returned the earlier turn followed by the new one (the append
\* re-armed the TTL).
MemoryRoundTripWitness ==
    /\ CleanStore
    /\ lastStore.type = "conversation"
    /\ lastStore.before = <<EarlierItem("conversation")>>
    /\ lastRead.afterStore
    /\ ~lastRead.failed
    /\ lastRead.type = "conversation"
    /\ lastRead.ret = <<EarlierItem("conversation"), lastStore.item>>
    /\ lastRead.at > lastStore.at

\* C11: a store call (storeConversation, storeLongTerm) during which the
\* backend failed, at its get or at its put, raises nothing and is a no-op:
\* the record under the user's key is what it was before the call (stated for
\* a call with no concurrent writer and before any time has passed, so that
\* nothing but the call can have changed the record); a read during which the
\* backend failed returns the empty list.
FailedStoreIsNoOp ==
    /\ (/\ lastStore.done
        /\ lastStore.available
        /\ lastStore.failed
        /\ ~lastStore.overlap
        /\ ticks = 0)
          => ReadResult(kv, lastStore.type, lastStore.user, kvNow, TRUE)
                = lastStore.before
    /\ (lastRead.done /\ lastRead.failed) => lastRead.ret = <<>>

(***************************************************************************)
(* SpecWriters: store calls of one Memory instance, made at any moment and *)
(* interleaving at their kv.get and kv.put; every store call that          *)
(* completes is logged.                                                    *)
(***************************************************************************)
\* The awaited kv.put of store call c settles, and the call is logged.
WriterPutSettles(c, ok) ==
    /\ PutSettles(c, ok)
    /\ writes' = Append(writes, [id |-> c.id, type |-> c.type, user |-> c.user,
                                 item |-> c.item, read |-> c.existing,
                                 overlap |-> c.overlap, failed |-> c.failed \/ ~ok])

NextWriters ==
    \/ \E type \in MemTypes, user \in Users :
          \E item \in ItemsOf(type) : MemStoreCall(type, user, item)
    \/ \E c \in memCalls, ok \in BOOLEAN : MemGetSettles(c, ok)
    \/ \E c \in memCalls, ok \in BOOLEAN : WriterPutSettles(c, ok)

SpecWriters == InitMem /\ [][NextWriters]_vars

\* The completed store calls on the key of (type, user), in completion order.
WritesOn(type, user) ==
    SelectSeq(writes, LAMBDA w : w.type = type /\ w.user = user)

\* Exactly two store calls on the key have completed, neither with a failing
\* get or put, and no third is in flight.
TwoWriters(type, user) ==
    /\ Len(WritesOn(type, user)) = 2
    /\ \A i \in 1..2 : ~WritesOn(type, user)[i].failed
    /\ WritersOf(type, user) = {}

\* C13: writes are read-append-write with last-writer-wins. For two store
\* calls on the same user: the final record is the list read by the writer
\* whose put landed last followed by that writer's item; if the two calls did
\* not overlap it is the earlier record followed by both items in call order;
\* in every interleaving it holds every turn present before both calls and at
\* least one of the two new items.
LastWriterWins ==
    \A type \in MemTypes, user \in Users :
        LET ws == WritesOn(type, user)
            earlier == ReadResult(kv0, type, user, 0, TRUE)
            final == ReadResult(kv, type, user, kvNow, TRUE) IN
        TwoWriters(type, user) =>
            /\ final = Append(ws[2].read, ws[2].item)
            /\ (~ws[1].overlap /\ ~ws[2].overlap) =>
                  /\ ws[1].id < ws[2].id
                  /\ final = earlier \o <<ws[1].item, ws[2].item>>
            /\ final \in {earlier \o <<ws[2].item>>,
                          earlier \o <<ws[1].item, ws[2].item>>}

\* C13 witness: two overlapping storeConversation calls with different turns
\* completed on a record that held an earlier turn; the record ends as the
\* earlier turn followed by the last writer's turn only.
LastWriterWinsWitness ==
    LET ws == WritesOn("conversation", "alice") IN
    /\ TwoWriters("conversation", "alice")
    /\ ws[1].overlap /\ ws[2].overlap
    /\ ws[1].item # ws[2].item
    /\ ReadResult(kv0, "conversation", "alice", 0, TRUE) = <<EarlierItem("conversation")>>
    /\ ReadResult(kv, "conversation", "alice", kvNow, TRUE)
          = <<EarlierItem("conversation"), ws[2].item>>

(***************************************************************************)
(* SpecPersist: the turn-persisting step of processMessageInternal, the    *)
(* Promise.all of two storeConversation calls, over a Memory whose backend *)
(* is present or not and may fail.                                         *)
(***************************************************************************)
\* The two items stored: { role: 'user', content: transformedMessage.text }
\* and { role: 'assistant', content: response }.
UserTurn == [role |-> "user", content |-> "hello"]
AssistantTurn == [role |-> "assistant", content |-> "hi there"]

\* A storeConversation(user, item) call suspended at the kv.get of its
\* getConversations, made while the other call of the pair is in flight.
PairedStore(n, user, item) ==
    [id |-> memCount + n, op |-> "store", type |-> "conversation", user |-> user,
     item |-> item, pc |-> "get", existing |-> <<>>, before |-> <<>>,
     overlap |-> TRUE, failed |-> FALSE, afterStore |-> FALSE]

\* Promise.all([storeConversation(id, userTurn), storeConversation(id,
\* assistantTurn)]) is evaluated: both calls are made, in this order, in one
\* synchronous segment; each returns at once when the store is unavailable,
\* else runs to the await of its kv.get.
PersistCall(user) ==
    /\ persist.pc = "idle"
    /\ memCalls = {}
    /\ memCount + 2 <= MaxMemCalls
    /\ memCount' = memCount + 2
    /\ persist' = [pc |-> "storing", user |-> user,
                   before |-> ReadResult(kv, "conversation", user, kvNow, TRUE),
                   failed |-> FALSE, available |-> isAvailable]
    /\ IF ~isAvailable
       THEN /\ lastStore' = [NoStore EXCEPT !.done = TRUE, !.type = "conversation",
                                            !.user = user, !.item = AssistantTurn,
                                            !.at = kvNow]
            /\ UNCHANGED memCalls
       ELSE /\ memCalls' = {PairedStore(1, user, UserTurn),
                            PairedStore(2, user, AssistantTurn)}
            /\ UNCHANGED lastStore
    /\ UNCHANGED <<queueVars, now, kvNow, rateLimits, rlVars, retryVars, kv, isAvailable,
                   lastRead, kv0, writes, castVars, histVars>>

\* Both storeConversation promises have settled: the await of Promise.all
\* resumes (sendReply is called next).
PersistSettles ==
    /\ persist.pc = "storing"
    /\ memCalls = {}
    /\ persist' = [persist EXCEPT !.pc = "done"]
    /\ UNCHANGED <<queueVars, now, kvNow, rateLimits, rlVars, retryVars, kv, isAvailable,
                   memCalls, memCount, lastStore, lastRead, kv0, writes, castVars, histVars>>

NextPersist ==
    \/ \E user \in Users : PersistCall(user)
    \/ \E c \in memCalls, ok \in BOOLEAN : MemGetSettles(c, ok)
    \/ \E c \in memCalls, ok \in BOOLEAN : MemPutSettles(c, ok)
    \/ PersistSettles

SpecPersist == InitMem /\ [][NextPersist]_vars

\* C12: when a message with no matching action has been processed through the
\* persisting step with a store that is present and did not fail, the
\* conversation record is its previous contents followed by the user turn and
\* then the assistant turn.
BothTurnsPersisted ==
    (persist.pc = "done" /\ persist.available /\ ~persist.failed)
        => ReadResult(kv, "conversation", persist.user, kvNow, TRUE)
              = persist.before \o <<UserTurn, AssistantTurn>>

(***************************************************************************)
(* SpecHistory: the generation path of processMessageInternal from         *)
(* getHistory to the Promise.all of the stores, for up to MaxTurns         *)
(* messages of one user handled one after the other by one Agent, over a   *)
(* Memory whose backend is present or not and may fail.                    *)
(***************************************************************************)
\* Texts of the messages, and the response generated for a text.
TurnTexts == {"hello", "bye"}
ReplyTo(text) == IF text = "hello" THEN "hi there" ELSE "see you"
UserTurnOf(text) == [role |-> "user", content |-> text]
AssistantTurnOf(text) == [role |-> "assistant", content |-> ReplyTo(text)]

\* this.memoryCache.has(`history_${conversationId}`)
HistoryCached(cache, conversationId) == MapHas(cache, HistoryKey(conversationId))

HistUnchanged ==
    UNCHANGED <<now, rateLimits, rlVars, retryVars, castVars, kvNow, isAvailable,
                lastStore, lastRead, persist, kv0, writes, messageQueue,
                processingQueue, calls, lastCall, lastDrain, enqueued, handed, sent>>

\* A message with this text reaches getHistory(conversationId): a cached list
\* is returned; else memory.getConversations is called (returning [] at once
\* when the store is unavailable, and that is cached).
HistMessage(user, text) ==
    LET key == HistoryKey(user) IN
    /\ hist.pc = "idle"
    /\ hist.count < MaxTurns
    /\ IF HistoryCached(memoryCache, user)
       THEN /\ hist' = [pc |-> "generate", count |-> hist.count + 1, text |-> text,
                        history |-> memoryCache[key]]
            /\ UNCHANGED memoryCache
       ELSE IF ~isAvailable
       THEN /\ hist' = [pc |-> "generate", count |-> hist.count + 1, text |-> text,
                        history |-> <<>>]
            /\ memoryCache' = MapSet(memoryCache, key, <<>>)
       ELSE /\ hist' = [pc |-> "historyGet", count |-> hist.count + 1, text |-> text,
                        history |-> <<>>]
            /\ UNCHANGED memoryCache
    /\ UNCHANGED <<kv, memCalls, memCount, turns>>
    /\ HistUnchanged

\* The kv.get of getConversations settles: the list is cached under
\* history_<id> and returned.
HistGetSettles(user, ok) ==
    LET list == ReadResult(kv, "conversation", user, kvNow, ok) IN
    /\ hist.pc = "historyGet"
    /\ hist' = [hist EXCEPT !.pc = "generate", !.history = list]
    /\ memoryCache' = MapSet(memoryCache, HistoryKey(user), list)
    /\ UNCHANGED <<kv, memCalls, memCount, turns>>
    /\ HistUnchanged

\* await generateResponse(message, history, longTermContext) settles with the
\* response; the two storeConversation calls of the Promise.all are made.
HistGenerateSettles(user) ==
    /\ hist.pc = "generate"
    /\ turns' = Append(turns, [text |-> hist.text, history |-> hist.history])
    /\ hist' = [hist EXCEPT !.pc = "storing"]
    /\ memCount' = memCount + 2
    /\ memCalls' = IF ~isAvailable THEN memCalls
                   ELSE {PairedStore(1, user, UserTurnOf(hist.text)),
                         PairedStore(2, user, AssistantTurnOf(hist.text))}
    /\ UNCHANGED <<kv, memoryCache>>
    /\ HistUnchanged

\* Both storeConversation promises have settled: the message is done.
HistStoresSettle ==
    /\ hist.pc = "storing"
    /\ memCalls = {}
    /\ hist' = [hist EXCEPT !.pc = "idle"]
    /\ UNCHANGED <<kv, memCalls, memCount, memoryCache, turns>>
    /\ HistUnchanged

NextHistory ==
    \/ \E user \in Users, text \in TurnTexts : HistMessage(user, text)
    \/ \E user \in Users, ok \in BOOLEAN : HistGetSettles(user, ok)
    \/ \E user \in Users : HistGenerateSettles(user)
    \/ \E c \in memCalls, ok \in BOOLEAN : MemGetSettles(c, ok)
    \/ \E c \in memCalls, ok \in BOOLEAN : MemPutSettles(c, ok)
    \/ HistStoresSettle

SpecHistory == InitMem /\ [][NextHistory]_vars

\* C15: after a message with text t of a user has been processed by the
\* generation path, the next message processed for the same user on the same
\* Agent is generated with a history holding the turn 'user: t' followed by the
\* assistant's reply to it.
HistoryIncludesEarlierTurn ==
    \A k \in 2..Len(turns) :
        \E i \in 1..(Len(turns[k].history) - 1) :
            /\ turns[k].history[i] = [role |-> "user", content |-> turns[k - 1].text]
            /\ turns[k].history[i + 1].role = "assistant"

(***************************************************************************)
(* Spec: the Agent's message queue.  processMessage is called up to        *)
(* MaxCalls times, at any moment; every step below is the code between two *)
(* awaits.  The Agent is as its constructor leaves it: the Memory it builds *)
(* is handed { agent_memory } and finds no AGENT_KV, so it is unavailable. *)
(* Date.now() reads `now`, which advances across withRetry's backoff       *)
(* sleeps; the other awaits settle within the millisecond they began in.   *)
(***************************************************************************)
Init ==
    /\ now = 0
    /\ rateLimits = InitRateLimits
    /\ RLHistInit
    /\ RetryIdle
    /\ MemIdle
    /\ QueueIdle
    /\ CastIdle
    /\ HistIdle

\* Call c runs a drain loop whose processMessageInternal awaits at `stage`.
Awaiting(c, stage) ==
    /\ c \in 1..Len(calls)
    /\ calls[c].status = "draining"
    /\ calls[c].frame.stage = stage

\* The awaiting activation of call c goes on with frame f.
Continue(c, f) == calls' = [calls EXCEPT ![c].frame = f]

\* processMessage(m): validate, push, then either start the drain loop (which
\* shifts the head of the queue and enters processMessageInternal) or return
\* the queued acknowledgment.
ProcessMessage(m) ==
    LET id == Len(calls) + 1
        v  == ValidateMessage(m)
        q  == Enqueue(messageQueue, QMsg(id, v.message), processingQueue)
        d  == Dequeue(q)
        call == [NoCall EXCEPT !.id = id]
        last == [NoLastCall EXCEPT !.id = id, !.input = m] IN
    /\ Len(calls) < MaxCalls
    /\ IF ~v.ok
       THEN /\ calls' = Append(calls, [call EXCEPT !.status = "raised"])
            /\ lastCall' = [last EXCEPT !.status = "raised", !.error = v.error]
            /\ UNCHANGED <<messageQueue, processingQueue, enqueued, handed>>
       ELSE IF ShouldDrain(processingQueue)
       THEN /\ processingQueue' = TRUE
            /\ messageQueue' = d.rest
            /\ calls' = Append(calls, [call EXCEPT !.status = "draining",
                                                   !.frame = EnterInternal(d.message)])
            /\ lastCall' = [last EXCEPT !.status = "draining"]
            /\ enqueued' = Append(enqueued, id)
            /\ handed' = Append(handed, d.message.id)
       ELSE /\ messageQueue' = q
            /\ calls' = Append(calls, [call EXCEPT !.status = "returned"])
            /\ lastCall' = [last EXCEPT !.status = "returned", !.ret = QueuedAck]
            /\ enqueued' = Append(enqueued, id)
            /\ UNCHANGED <<processingQueue, handed>>
    /\ UNCHANGED <<now, rateLimits, memoryCache, lastDrain, sent,
                   rlVars, retryVars, memVars, castVars, histVars>>

\* await processMessageInternal(message) fulfils and the queue is not empty:
\* the loop shifts the next message and hands it over.
DrainNext(c) ==
    LET d == Dequeue(messageQueue) IN
    /\ Awaiting(c, "settled")
    /\ calls[c].frame.settled.ok
    /\ messageQueue # <<>>
    /\ messageQueue' = d.rest
    /\ calls' = [calls EXCEPT ![c].result = calls[c].frame.settled.value,
                              ![c].frame = EnterInternal(d.message)]
    /\ handed' = Append(handed, d.message.id)
    /\ UNCHANGED <<now, rateLimits, processingQueue, memoryCache, lastCall,
                   lastDrain, enqueued, sent, rlVars, retryVars, memVars, castVars, histVars>>

\* The drain loop returning after the message it awaited, whatever is queued.
DrainEndsEarly(c) ==
    /\ Awaiting(c, "settled")
    /\ calls[c].frame.settled.ok
    /\ processingQueue' = FALSE
    /\ calls' = [calls EXCEPT ![c] = [NoCall EXCEPT !.id = c, !.status = "returned"]]
    /\ lastDrain' = [NoLastDrain EXCEPT !.id = c, !.status = "returned",
                                        !.ret = calls[c].frame.settled.value,
                                        !.last = calls[c].frame.cur.id]
    /\ UNCHANGED <<now, rateLimits, messageQueue, memoryCache, lastCall, enqueued,
                   handed, sent, rlVars, retryVars, memVars, castVars, histVars>>

\* await processMessageInternal(message) fulfils and the queue is empty: the
\* loop ends, finally clears the flag, the last result is returned.
DrainEnds(c) ==
    /\ Awaiting(c, "settled")
    /\ calls[c].frame.settled.ok
    /\ messageQueue = <<>>
    /\ processingQueue' = FALSE
    /\ calls' = [calls EXCEPT ![c] = [NoCall EXCEPT !.id = c, !.status = "returned"]]
    /\ lastDrain' = [NoLastDrain EXCEPT !.id = c, !.status = "returned",
                                        !.ret = calls[c].frame.settled.value,
                                        !.last = calls[c].frame.cur.id]
    /\ UNCHANGED <<now, rateLimits, messageQueue, memoryCache, lastCall, enqueued,
                   handed, sent, rlVars, retryVars, memVars, castVars, histVars>>

\* The drain loop without its finally block: a rejection leaves the flag set.
DrainAbortsFlagStuck(c) ==
    /\ Awaiting(c, "settled")
    /\ ~calls[c].frame.settled.ok
    /\ calls' = [calls EXCEPT ![c] = [NoCall EXCEPT !.id = c, !.status = "raised"]]
    /\ lastDrain' = [NoLastDrain EXCEPT !.id = c, !.status = "raised",
                                        !.error = calls[c].frame.settled.error,
                                        !.last = calls[c].frame.cur.id]
    /\ UNCHANGED <<now, rateLimits, messageQueue, processingQueue, memoryCache,
                   lastCall, enqueued, handed, sent, rlVars, retryVars, memVars,
                   castVars, histVars>>

\* The drain loop taking a rejection of processMessageInternal for an empty
\* result and returning.
DrainAbortsReturning(c) ==
    /\ Awaiting(c, "settled")
    /\ ~calls[c].frame.settled.ok
    /\ processingQueue' = FALSE
    /\ calls' = [calls EXCEPT ![c] = [NoCall EXCEPT !.id = c, !.status = "returned"]]
    /\ lastDrain' = [NoLastDrain EXCEPT !.id = c, !.status = "returned",
                                        !.last = calls[c].frame.cur.id]
    /\ UNCHANGED <<now, rateLimits, messageQueue, memoryCache, lastCall, enqueued,
                   handed, sent, rlVars, retryVars, memVars, castVars, histVars>>

\* await processMessageInternal(message) rejects: the error leaves the loop
\* through finally, which clears the flag; what is queued stays queued.
DrainAborts(c) ==
    /\ Awaiting(c, "settled")
    /\ ~calls[c].frame.settled.ok
    /\ processingQueue' = FALSE
    /\ calls' = [calls EXCEPT ![c] = [NoCall EXCEPT !.id = c, !.status = "raised"]]
    /\ lastDrain' = [NoLastDrain EXCEPT !.id = c, !.status = "raised",
                                        !.error = calls[c].frame.settled.error,
                                        !.last = calls[c].frame.cur.id]
    /\ UNCHANGED <<now, rateLimits, messageQueue, memoryCache, lastCall, enqueued,
                   handed, sent, rlVars, retryVars, memVars, castVars, histVars>>

\* Everything the steps inside processMessageInternal leave alone.
InternalUnchanged ==
    UNCHANGED <<messageQueue, processingQueue, lastCall, lastDrain, enqueued, handed,
                rlVars, retryVars, memVars, castVars, histVars>>

\* await initializeClient(platform) settles: Unsupported platform, or what the
\* platform's initializer gave (a client, nothing, or a rejection); with a
\* value, transformMessage is called.
ClientSettles(c, outcome) ==
    LET f == calls[c].frame IN
    /\ Awaiting(c, "client")
    /\ IF f.cur.platform \notin SupportedPlatforms
       THEN Continue(c, Reject(f, UnsupportedPlatform))
       ELSE IF outcome = "raise"
       THEN Continue(c, Reject(f, UpstreamError))
       ELSE Continue(c, [f EXCEPT !.stage = "transform", !.client = outcome])
    /\ UNCHANGED <<now, rateLimits, memoryCache, sent>>
    /\ InternalUnchanged

\* await transformMessage(message, client) settles (ok: transformWebhook gave a
\* message); then the response-cache test, then checkActions is called.
TransformSettles(c, ok) ==
    LET f == calls[c].frame
        key == ResponseKey(f.cur.username, now) IN
    /\ Awaiting(c, "transform")
    /\ IF f.client = "null"
       THEN Continue(c, Reject(f, ClientNotInitialized))
       ELSE IF ~ok
       THEN Continue(c, Reject(f, TransformFailed))
       ELSE IF MapHas(memoryCache, key)
       THEN Continue(c, Resolve(f, memoryCache[key]))
       ELSE Continue(c, [f EXCEPT !.stage = "actions", !.cacheKey = key])
    /\ UNCHANGED <<now, rateLimits, memoryCache, sent>>
    /\ InternalUnchanged

\* await checkActions(message) settles: a rejection, no action, an action with
\* a text only (sendReply is called), or an action with a context (withRetry
\* is called and runs to its first await).
ActionsSettles(c, outcome) ==
    LET f == calls[c].frame
        n == RetryLoopTop([NoRetry EXCEPT !.key = "llm-api"], rateLimits, now) IN
    /\ Awaiting(c, "actions")
    /\ CASE outcome = "raise" ->
              /\ Continue(c, Reject(f, UpstreamError))
              /\ UNCHANGED <<rateLimits, sent>>
         [] outcome = "none" ->
              /\ Continue(c, [f EXCEPT !.stage = "conversationId"])
              /\ UNCHANGED <<rateLimits, sent>>
         [] outcome = "text" ->
              /\ Continue(c, [f EXCEPT !.stage = "reply",
                                       !.response = ActionText(f.cur.id)])
              /\ sent' = Append(sent, f.cur.id)
              /\ UNCHANGED rateLimits
         [] outcome = "context" ->
              /\ Continue(c, [f EXCEPT !.stage = "llm", !.retry = n.retry])
              /\ rateLimits' = n.limits
              /\ UNCHANGED sent
    /\ UNCHANGED <<now, memoryCache>>
    /\ InternalUnchanged

\* The LLM operation inside withRetry fulfils: withRetry returns, sendReply is
\* called with the LLM's text.
LlmReturns(c) ==
    LET f == calls[c].frame IN
    /\ Awaiting(c, "llm")
    /\ f.retry.pc = "op"
    /\ Continue(c, [f EXCEPT !.stage = "reply", !.retry = NoRetry,
                             !.response = LlmText(f.cur.id)])
    /\ sent' = Append(sent, f.cur.id)
    /\ UNCHANGED <<now, rateLimits, memoryCache>>
    /\ InternalUnchanged

\* The LLM operation inside withRetry rejects with e: withRetry rethrows it,
\* or sleeps before the next attempt.
LlmThrows(c, e) ==
    LET f == calls[c].frame
        r == RetryOnError(f.retry, e, now) IN
    /\ Awaiting(c, "llm")
    /\ f.retry.pc = "op"
    /\ IF r.pc = "raised"
       THEN Continue(c, Reject(f, r.error))
       ELSE Continue(c, [f EXCEPT !.retry = r])
    /\ UNCHANGED <<now, rateLimits, memoryCache, sent>>
    /\ InternalUnchanged

\* withRetry's backoff timer fires: attempt++ and the next pass of its loop.
LlmWake(c) ==
    LET f == calls[c].frame
        t == IF now >= f.retry.wakeAt THEN now ELSE f.retry.wakeAt
        n == RetryLoopTop([f.retry EXCEPT !.attempt = @ + 1], rateLimits, t) IN
    /\ Awaiting(c, "llm")
    /\ f.retry.pc \in {"sleepLimit", "sleepError"}
    /\ now' = t
    /\ rateLimits' = n.limits
    /\ IF n.retry.pc = "raised"
       THEN Continue(c, Reject(f, n.retry.error))
       ELSE Continue(c, [f EXCEPT !.retry = n.retry])
    /\ UNCHANGED <<memoryCache, sent>>
    /\ InternalUnchanged

\* await getConversationId(message) settles; with an id, getHistory is called
\* and runs to its cache test: a hit returns, a miss awaits
\* memory.getConversations.
ConversationIdSettles(c, ok) ==
    LET f == calls[c].frame
        id == f.cur.username IN
    /\ Awaiting(c, "conversationId")
    /\ IF ~ok
       THEN Continue(c, Reject(f, UpstreamError))
       ELSE Continue(c, [f EXCEPT !.stage = "history", !.conversationId = id,
                                  !.histCached = MapHas(memoryCache, HistoryKey(id))])
    /\ UNCHANGED <<now, rateLimits, memoryCache, sent>>
    /\ InternalUnchanged

\* await getHistory(conversationId) settles: the cached list, or what
\* memory.getConversations returned (the store is unavailable: []) which is
\* cached; then getLongTermContext is called.
HistorySettles(c) ==
    LET f == calls[c].frame
        key == HistoryKey(f.conversationId) IN
    /\ Awaiting(c, "history")
    /\ ~isAvailable
    /\ IF f.histCached
       THEN /\ Continue(c, [f EXCEPT !.stage = "longTerm", !.history = memoryCache[key]])
            /\ UNCHANGED memoryCache
       ELSE /\ Continue(c, [f EXCEPT !.stage = "longTerm", !.history = <<>>])
            /\ memoryCache' = MapSet(memoryCache, key, <<>>)
    /\ UNCHANGED <<now, rateLimits, sent>>
    /\ InternalUnchanged

\* await getLongTermContext(username) settles; then generateResponse is called.
LongTermSettles(c, ok) ==
    LET f == calls[c].frame IN
    /\ Awaiting(c, "longTerm")
    /\ IF ~ok
       THEN Continue(c, Reject(f, UpstreamError))
       ELSE Continue(c, [f EXCEPT !.stage = "generate"])
    /\ UNCHANGED <<now, rateLimits, memoryCache, sent>>
    /\ InternalUnchanged

\* await generateResponse(...) settles: the response is put in the response
\* cache under cacheKey and the two storeConversation calls are made (the
\* store is unavailable: both return at once).
GenerateSettles(c, ok) ==
    LET f == calls[c].frame
        response == GeneratedText(f.cur.id) IN
    /\ Awaiting(c, "generate")
    /\ ~isAvailable
    /\ IF ~ok
       THEN /\ Continue(c, Reject(f, UpstreamError))
            /\ UNCHANGED memoryCache
       ELSE /\ Continue(c, [f EXCEPT !.stage = "store", !.response = response])
            /\ memoryCache' = MapSet(memoryCache, f.cacheKey, Result(response, TRUE))
    /\ UNCHANGED <<now, rateLimits, sent>>
    /\ InternalUnchanged

\* await Promise.all([...]) settles: sendReply is called with the response.
StoreSettles(c) ==
    LET f == calls[c].frame IN
    /\ Awaiting(c, "store")
    /\ Continue(c, [f EXCEPT !.stage = "reply"])
    /\ sent' = Append(sent, f.cur.id)
    /\ UNCHANGED <<now, rateLimits, memoryCache>>
    /\ InternalUnchanged

\* await sendReply(text, message) settles: processMessageInternal returns
\* { text, shouldSendMessage: true }.
ReplySettles(c, ok) ==
    LET f == calls[c].frame IN
    /\ Awaiting(c, "reply")
    /\ IF ~ok
       THEN Continue(c, Reject(f, UpstreamError))
       ELSE Continue(c, Resolve(f, Result(f.response, TRUE)))
    /\ UNCHANGED <<now, rateLimits, memoryCache, sent>>
    /\ InternalUnchanged

Next ==
    \/ \E m \in Inputs : ProcessMessage(m)
    \/ \E c \in 1..MaxCalls :
        \/ DrainNext(c)
        \/ DrainEnds(c)
        \/ DrainAborts(c)
        \/ \E outcome \in {"client", "null", "raise"} : ClientSettles(c, outcome)
        \/ \E ok \in BOOLEAN : TransformSettles(c, ok)
        \/ \E outcome \in {"raise", "none", "text", "context"} : ActionsSettles(c, outcome)
        \/ LlmReturns(c)
        \/ \E e \in LlmErrors : LlmThrows(c, e)
        \/ LlmWake(c)
        \/ \E ok \in BOOLEAN : ConversationIdSettles(c, ok)
        \/ HistorySettles(c)
        \/ \E ok \in BOOLEAN : LongTermSettles(c, ok)
        \/ \E ok \in BOOLEAN : GenerateSettles(c, ok)
        \/ StoreSettles(c)
        \/ \E ok \in BOOLEAN : ReplySettles(c, ok)

Spec == Init /\ [][Next]_vars

\* A fair run of the queue: a step of a running drain loop (an await settling,
\* a timer firing, the loop going on) that stays possible is eventually taken.
\* Nothing obliges a caller to call processMessage again.
LoopStep ==
    \E c \in 1..MaxCalls :
        \/ DrainNext(c)
        \/ DrainEnds(c)
        \/ DrainAborts(c)
        \/ \E outcome \in {"client", "null", "raise"} : ClientSettles(c, outcome)
        \/ \E ok \in BOOLEAN : TransformSettles(c, ok)
        \/ \E outcome \in {"raise", "none", "text", "context"} : ActionsSettles(c, outcome)
        \/ LlmReturns(c)
        \/ \E e \in LlmErrors : LlmThrows(c, e)
        \/ LlmWake(c)
        \/ \E ok \in BOOLEAN : ConversationIdSettles(c, ok)
        \/ HistorySettles(c)
        \/ \E ok \in BOOLEAN : LongTermSettles(c, ok)
        \/ \E ok \in BOOLEAN : GenerateSettles(c, ok)
        \/ StoreSettles(c)
        \/ \E ok \in BOOLEAN : ReplySettles(c, ok)

SpecFair == Init /\ [][Next]_vars /\ WF_vars(LoopStep)

\* The processMessage calls whose drain loop is running, and those of them
\* with a message inside processMessageInternal.
Draining == {c \in 1..Len(calls) : calls[c].status = "draining"}
InInternal == {c \in Draining : calls[c].frame.stage \notin {"none", "settled"}}

\* The ids held by a sequence.
Ids(seq) == {seq[i] : i \in 1..Len(seq)}
QueuedIds == {messageQueue[i].id : i \in 1..Len(messageQueue)}

\* C1: at most one drain loop is active and at most one message is inside
\* processMessageInternal at any time, and a processMessage call arriving
\* while processingQueue is true starts no additional loop.
SingleDrainLoop ==
    /\ [](Cardinality(Draining) <= 1 /\ Cardinality(InInternal) <= 1)
    /\ [][(Len(calls') = Len(calls) + 1 /\ processingQueue) => Draining' = Draining]_vars

\* C1 witness: a call arrived and was acknowledged while another call's drain
\* loop had a message inside processMessageInternal.
SingleDrainLoopWitness ==
    /\ Cardinality(InInternal) = 1
    /\ lastCall.status = "returned"
    /\ \E c \in Draining : c < lastCall.id

\* C2: no validated message is lost or duplicated: each enqueued message is
\* either still in messageQueue or has been handed exactly once to
\* processMessageInternal, and whenever the flag is false with no processMessage
\* call in progress, as many messages were drained as enqueued (the queue is
\* empty).
NoMessageLost ==
    /\ \A id \in Ids(enqueued) :
        /\ (id \in QueuedIds) # (id \in Ids(handed))
        /\ Cardinality({i \in 1..Len(handed) : handed[i] = id}) <= 1
        /\ Cardinality({i \in 1..Len(messageQueue) : messageQueue[i].id = id}) <= 1
    /\ (~processingQueue /\ Draining = {}) =>
        (Len(handed) = Len(enqueued) /\ messageQueue = <<>>)

\* C3: messages are handed to processMessageInternal in exactly the order they
\* were enqueued.
FifoHandOff ==
    /\ Len(handed) <= Len(enqueued)
    /\ \A i \in 1..Len(handed) : handed[i] = enqueued[i]

\* C3 witness: a second message was handed over while a third, enqueued after
\* it, still waits.
FifoHandOffWitness ==
    /\ Len(handed) >= 2
    /\ messageQueue # <<>>
    /\ Len(enqueued) = Len(handed) + Len(messageQueue)

\* C4: a started drain loop runs to completion: every message that was
\* validated and enqueued is eventually handed to processMessageInternal, each
\* step terminating normally or by raising, without a later processMessage
\* call.
DrainRunsToCompletion ==
    \A id \in 1..MaxCalls : (id \in Ids(enqueued)) ~> (id \in Ids(handed))

\* C5: a processMessage call with a message that passes validation, arriving
\* while processingQueue is true, appends the sanitized message to the tail of
\* the queue, returns { text: 'Message queued for processing',
\* shouldSendMessage: false } in the same step, starts no second loop and
\* leaves the flag as it is.
QueuedWhileDraining ==
    [][(/\ Len(calls') = Len(calls) + 1
        /\ processingQueue
        /\ ValidateMessage(lastCall'.input).ok)
       => (/\ Len(messageQueue') = Len(messageQueue) + 1
           /\ SubSeq(messageQueue', 1, Len(messageQueue)) = messageQueue
           /\ messageQueue'[Len(messageQueue')].id = lastCall'.id
           /\ messageQueue'[Len(messageQueue')].text = Sanitize(lastCall'.input.text.chars)
           /\ lastCall'.status = "returned"
           /\ lastCall'.ret = [text |-> QueuedText, shouldSendMessage |-> FALSE]
           /\ Draining' = Draining
           /\ processingQueue' = processingQueue)]_vars

\* C5 witness: the latest call was acknowledged as queued and its message,
\* stripped of blanks and angle brackets, is the tail of the queue of a running
\* drain loop.
QueuedWhileDrainingWitness ==
    /\ processingQueue
    /\ lastCall.status = "returned"
    /\ lastCall.ret = QueuedAck
    /\ messageQueue # <<>>
    /\ messageQueue[Len(messageQueue)].id = lastCall.id
    /\ messageQueue[Len(messageQueue)].text = <<"h", "i">>
    /\ lastCall.input.text.chars # <<"h", "i">>

\* The messages C6 is about: platform missing, text missing or not a string,
\* author missing or without a username.
ClaimInvalid(m) ==
    \/ m.platform = Undefined
    \/ m.text.kind # "string"
    \/ ~m.author.present
    \/ m.author.username = Undefined

\* C6: for every message missing platform, missing text or with non-string
\* text, or missing author or author.username, processMessage raises before
\* enqueuing: the queue, the flag, the rate-limit map and the cache are as they
\* were.
InvalidRejected ==
    [][(Len(calls') = Len(calls) + 1 /\ ClaimInvalid(lastCall'.input))
       => (/\ lastCall'.status = "raised"
           /\ lastCall'.error # NoError
           /\ UNCHANGED <<messageQueue, processingQueue, rateLimits, memoryCache>>)]_vars

\* C6 witness: an invalid message was rejected while a drain loop was running
\* with messages queued.
InvalidRejectedWitness ==
    /\ lastCall.status = "raised"
    /\ ClaimInvalid(lastCall.input)
    /\ processingQueue
    /\ messageQueue # <<>>

(***************************************************************************)
(* SpecCast: one call of the Farcaster agent (unnamed/part_001), either    *)
(* processMessage(message) or handleAction(name, text, author), over a     *)
(* Memory whose backend is present or not and may fail.  The timestamp     *)
(* field of the stored items is left out.                                  *)
(***************************************************************************)
CastUnchanged ==
    UNCHANGED <<now, rateLimits, rlVars, retryVars, queueVars, kvNow, isAvailable,
                memCalls, memCount, lastStore, lastRead, persist, kv0, writes,
                histVars>>

\* i, i+1, ..., j
Span(i, j) == [k \in 1..(j - i + 1) |-> i + k - 1]

\* Array.prototype.slice(-n)
LastN(list, n) ==
    IF Len(list) <= n THEN list ELSE SubSeq(list, Len(list) - n + 1, Len(list))

\* The first action at or after index i whose shouldExecute(text) is true
\* (0: none).
FirstMatch(matches, i) ==
    LET at == {j \in i..Len(Actions) : matches[j]} IN
    IF at = {} THEN 0 ELSE CHOOSE j \in at : \A k \in at : j <= k

\* The for loop over the actions run from index i: shouldExecute
\* is called on each action in turn; at the first that matches execute is
\* called and awaited; with none left generateResponse is called and awaited.
LoopFrom(c, i) ==
    LET j == FirstMatch(c.matches, i) IN
    IF j # 0
    THEN [cast |-> [c EXCEPT !.pc = "execute", !.idx = j],
          probed |-> probed \o Span(i, j),
          executed |-> Append(executed, j)]
    ELSE [cast |-> [c EXCEPT !.pc = "generate", !.idx = 0],
          probed |-> probed \o Span(i, Len(Actions)),
          executed |-> executed]

\* The call ends: it returns text, or raises e.
CastReturns(c, text) ==
    /\ cast' = [c EXCEPT !.pc = "done"]
    /\ castOutcome' = [status |-> "returned", text |-> text, error |-> NoError]
CastRaises(c, e) ==
    /\ cast' = [c EXCEPT !.pc = "done"]
    /\ castOutcome' = [status |-> "raised", text |-> <<>>, error |-> e]

\* publishCast(text, ...) is called: the text it is handed (body.text), and
\* the reply text it was made from.
HandedToPublish(text) == [text |-> text, from |-> text]

\* processMessage(m) is called: without an author fid it throws (the outer
\* catch rethrows); else it awaits memory.getAllMemories(fid).
CastProcessMessage(m) ==
    LET c == [NoCast EXCEPT !.via = "processMessage", !.text = m.text,
                            !.fid = m.fid, !.matches = m.matches] IN
    /\ cast.pc = "idle"
    /\ IF m.fid = Undefined
       THEN CastRaises(c, MissingFid)
       ELSE /\ cast' = [c EXCEPT !.pc = "memories"]
            /\ UNCHANGED castOutcome
    /\ UNCHANGED <<kv, probed, executed, published>>
    /\ CastUnchanged

\* await getAllMemories(fid) settles (it never rejects: each read turns a
\* failure into []); the context is formatted and the action loop starts.
CastMemoriesSettle(okConversations, okLongTerm) ==
    LET conversations == IF isAvailable
                         THEN ReadResult(kv, "conversation", cast.fid, kvNow, okConversations)
                         ELSE <<>>
        longTerm == IF isAvailable
                    THEN ReadResult(kv, "long_term", cast.fid, kvNow, okLongTerm)
                    ELSE <<>>
        context == <<[from |-> "memory", conversations |-> LastN(conversations, 5),
                      longTerm |-> LastN(longTerm, 3)]>>
        n == LoopFrom([cast EXCEPT !.context = context], 1) IN
    /\ cast.pc = "memories"
    /\ cast' = n.cast
    /\ probed' = n.probed
    /\ executed' = n.executed
    /\ UNCHANGED <<kv, published, castOutcome>>
    /\ CastUnchanged

\* await action.execute(...) settles inside processMessage: it rejects (nothing
\* in the loop catches it, the outer catch rethrows), or its result asks to send
\* a text (publishCast is called with result.text), or carries a context (added;
\* the loop goes on), or neither (the loop goes on).
CastExecuteSettles(outcome, text) ==
    LET from == [from |-> Actions[cast.idx], conversations |-> <<>>, longTerm |-> <<>>]
        n == IF outcome = "context"
             THEN LoopFrom([cast EXCEPT !.context = Append(@, from)], cast.idx + 1)
             ELSE LoopFrom(cast, cast.idx + 1) IN
    /\ cast.pc = "execute"
    /\ CASE outcome = "raise" ->
              /\ CastRaises([cast EXCEPT !.failedAction = TRUE], ActionFailed)
              /\ UNCHANGED <<probed, executed, published>>
         [] outcome = "send" ->
              /\ cast' = [cast EXCEPT !.pc = "publishAction", !.response = text]
              /\ published' = Append(published, HandedToPublish(text))
              /\ UNCHANGED <<probed, executed, castOutcome>>
         [] outcome \in {"context", "neither"} ->
              /\ cast' = n.cast
              /\ probed' = n.probed
              /\ executed' = n.executed
              /\ UNCHANGED <<published, castOutcome>>
    /\ UNCHANGED kv
    /\ CastUnchanged

\* await generateResponse(text, context) settles: with a response publishCast is
\* called with it; a rejection leaves through the outer catch.
CastGenerateSettles(ok, text) ==
    /\ cast.pc = "generate"
    /\ IF ~ok
       THEN /\ CastRaises(cast, LlmFailed)
            /\ UNCHANGED published
       ELSE /\ cast' = [cast EXCEPT !.pc = "publish", !.response = text]
            /\ published' = Append(published, HandedToPublish(text))
            /\ UNCHANGED castOutcome
    /\ UNCHANGED <<kv, probed, executed>>
    /\ CastUnchanged

\* await publishCast(...) settles. After an action's text: return result.text.
\* After a generated response: storeConversation(fid, user turn) is called
\* (with the store unavailable it and the assistant's return at once and the
\* response is returned).
CastPublishSettles(ok) ==
    /\ cast.pc \in {"publish", "publishAction"}
    /\ IF ~ok
       THEN CastRaises(cast, PublishFailed)
       ELSE IF cast.pc = "publishAction" \/ ~isAvailable
       THEN CastReturns(cast, cast.response)
       ELSE /\ cast' = [cast EXCEPT !.pc = "storeGet", !.type = "conversation",
                                    !.storing = [role |-> "user", content |-> cast.text]]
            /\ UNCHANGED castOutcome
    /\ UNCHANGED <<kv, probed, executed, published>>
    /\ CastUnchanged

\* The kv.get inside the store call in progress settles: the list read.
CastStoreGetSettles(ok) ==
    /\ cast.pc = "storeGet"
    /\ cast' = [cast EXCEPT !.pc = "storePut",
                            !.existing = ReadResult(kv, cast.type, cast.fid, kvNow, ok)]
    /\ UNCHANGED <<kv, probed, executed, published, castOutcome>>
    /\ CastUnchanged

\* The kv.put inside the store call in progress settles (a rejection is caught
\* by the store call). After the user turn the assistant turn is stored; after
\* that, or after handleAction's storeLongTerm, the call returns.
CastStorePutSettles(ok) ==
    /\ cast.pc = "storePut"
    /\ kv' = IF ok
             THEN StorePut(kv, cast.type, cast.fid, cast.existing, cast.storing, kvNow)
             ELSE kv
    /\ IF cast.via = "processMessage" /\ cast.storing.role = "user"
       THEN /\ cast' = [cast EXCEPT !.pc = "storeGet", !.existing = <<>>,
                                    !.storing = [role |-> "assistant",
                                                 content |-> cast.response]]
            /\ UNCHANGED castOutcome
       ELSE CastReturns(cast, cast.response)
    /\ UNCHANGED <<probed, executed, published>>
    /\ CastUnchanged

\* handleAction(name, text, author) is called: an unknown name is answered at
\* once; else the action's execute is called and awaited.
CastHandleAction(name) ==
    LET at == {i \in ActionIndexes : Actions[i] = name}
        c == [NoCast EXCEPT !.via = "handleAction", !.text = <<"g", "m">>,
                            !.fid = "alice"] IN
    /\ cast.pc = "idle"
    /\ IF at = {}
       THEN /\ CastReturns(c, UnknownCommandText)
            /\ UNCHANGED executed
       ELSE /\ cast' = [c EXCEPT !.pc = "handleExecute", !.idx = CHOOSE i \in at : TRUE]
            /\ executed' = Append(executed, CHOOSE i \in at : TRUE)
            /\ UNCHANGED castOutcome
    /\ UNCHANGED <<kv, probed, published>>
    /\ CastUnchanged

\* await action.execute(...) settles inside handleAction: a rejection is caught
\* and the apology returned; else storeLongTerm(fid, {type, action}) is called
\* (returning at once when the store is unavailable) and the result returned.
CastHandleExecuteSettles(ok, text) ==
    /\ cast.pc = "handleExecute"
    /\ IF ~ok
       THEN CastReturns([cast EXCEPT !.failedAction = TRUE], ApologyText)
       ELSE IF ~isAvailable
       THEN CastReturns([cast EXCEPT !.response = text], text)
       ELSE /\ cast' = [cast EXCEPT !.pc = "storeGet", !.type = "long_term",
                                    !.response = text,
                                    !.storing = [type |-> "action",
                                                 action |-> Actions[cast.idx]]]
            /\ UNCHANGED castOutcome
    /\ UNCHANGED <<kv, probed, executed, published>>
    /\ CastUnchanged

NextCast ==
    \/ \E m \in CastInputs : CastProcessMessage(m)
    \/ \E okC \in BOOLEAN, okL \in BOOLEAN : CastMemoriesSettle(okC, okL)
    \/ \E outcome \in {"raise", "send", "context", "neither"}, text \in Texts :
          CastExecuteSettles(outcome, text)
    \/ \E ok \in BOOLEAN, text \in Texts : CastGenerateSettles(ok, text)
    \/ \E ok \in BOOLEAN : CastPublishSettles(ok)
    \/ \E ok \in BOOLEAN : CastStoreGetSettles(ok)
    \/ \E ok \in BOOLEAN : CastStorePutSettles(ok)
    \/ \E name \in {"price", "news", "nope"} : CastHandleAction(name)
    \/ \E ok \in BOOLEAN, text \in Texts : CastHandleExecuteSettles(ok, text)

SpecCast == InitMem /\ [][NextCast]_vars

\* C14: actions are tried in registration order and the first match wins: once
\* an action's shouldExecute(text) has returned true, that action alone is
\* executed for the message and no later action has shouldExecute or execute
\* called, whatever its result holds.
FirstMatchWins ==
    cast.via = "processMessage" =>
        /\ Len(executed) <= 1
        /\ executed # <<>> => probed = Span(1, executed[1])
        /\ executed = <<>> => \E n \in 0..Len(Actions) : probed = Span(1, n)

\* C16: every text handed to publishCast, from generation or from an action,
\* has been cut to the platform limit: at most 280 characters, unchanged when
\* the reply is at most 280 characters, else its first 280 characters cut back
\* to end at the last '.' found at an index greater than 0.
RepliesTrimmed ==
    \A i \in 1..Len(published) :
        /\ Len(published[i].text) <= 280
        /\ published[i].text = TrimToFarcasterLimit(published[i].from)

\* C17: when a matched action's execute raises while a message is processed,
\* the caller receives the apology text and no exception from the action
\* reaches the caller of processMessage or of handleAction.
ActionFailureApologized ==
    (cast.pc = "done" /\ cast.failedAction) =>
        /\ castOutcome.status = "returned"
        /\ castOutcome.text = ApologyText

\* C18: an error inside a message's handling is not suppressed. A message whose
\* handling failed before its reply was dispatched never has its turns
\* persisted or sendReply called, then or later; and the drain loop awaiting it
\* does nothing with it but raise that same error out of its processMessage
\* invocation.
ErrorsPropagate ==
    /\ [](\A c \in 1..Len(calls) :
            (/\ calls[c].status = "draining"
             /\ calls[c].frame.stage = "settled"
             /\ ~calls[c].frame.settled.ok
             /\ calls[c].frame.at # "reply")
                => \A i \in 1..Len(sent) : sent[i] # calls[c].frame.cur.id)
    /\ [][\A c \in 1..Len(calls) :
            (/\ calls[c].status = "draining"
             /\ calls[c].frame.stage = "settled"
             /\ ~calls[c].frame.settled.ok)
                => /\ sent' # sent => sent'[Len(sent')] # calls[c].frame.cur.id
                   /\ calls'[c] # calls[c] =>
                        /\ calls'[c].status = "raised"
                        /\ lastDrain'.id = c
                        /\ lastDrain'.status = "raised"
                        /\ lastDrain'.error = calls[c].frame.settled.error
                        /\ lastDrain'.last = calls[c].frame.cur.id]_vars

\* C18 witness: a drain loop has raised the retryable LLM error that withRetry
\* gave up on after maxRetries invocations, for a message no reply was sent
\* for, while an earlier message had been replied to.
ErrorsPropagateWitness ==
    /\ lastDrain.status = "raised"
    /\ lastDrain.error = HttpError(503)
    /\ calls[lastDrain.id].status = "raised"
    /\ \A i \in 1..Len(sent) : sent[i] # lastDrain.last
    /\ sent # <<>>

\* C21: a processMessage call that started a drain loop returns only once the
\* queue is empty and every message enqueued so far, by it or by other callers,
\* has been handed over; what it returns is what processMessageInternal gave
\* for the last message handed over.
ReturnsLastDrained ==
    [][\A c \in 1..Len(calls) :
         (calls[c].status = "draining" /\ calls'[c].status = "returned")
            => /\ messageQueue = <<>> /\ messageQueue' = <<>>
               /\ Len(handed) = Len(enqueued)
               /\ calls[c].frame.stage = "settled"
               /\ calls[c].frame.settled.ok
               /\ calls[c].frame.cur.id = handed[Len(handed)]
               /\ lastDrain'.id = c
               /\ lastDrain'.status = "returned"
               /\ lastDrain'.ret = calls[c].frame.settled.value
               /\ lastDrain'.last = handed[Len(handed)]]_vars

\* C21 witness: a drain loop has returned the generated response of a message
\* that another, later call enqueued while the loop was running.
ReturnsLastDrainedWitness ==
    /\ lastDrain.status = "returned"
    /\ lastDrain.last > lastDrain.id
    /\ lastDrain.ret = [text |-> [kind |-> "generated", of |-> lastDrain.last],
                        shouldSendMessage |-> TRUE]
    /\ messageQueue = <<>>
    /\ calls[lastDrain.id].status = "returned"

\* C23: processingQueue is true exactly while a drain loop is active: when a
\* loop ends, by emptying the queue or by a message's processing raising, the
\* flag is false again, and a processMessage call with a valid message made
\* while no loop is active starts a drain loop.
FlagTracksDrainLoop ==
    /\ [](processingQueue <=> \E c \in 1..Len(calls) : calls[c].status = "draining")
    /\ [][\A c \in 1..Len(calls) :
            (calls[c].status = "draining" /\ calls'[c].status # "draining")
                => ~processingQueue']_vars
    /\ [][(/\ Len(calls') = Len(calls) + 1
           /\ \A c \in 1..Len(calls) : calls[c].status # "draining"
           /\ ValidateMessage(lastCall'.input).ok)
              => (/\ processingQueue'
                  /\ calls'[Len(calls')].status = "draining")]_vars

\* C23 witness: a drain loop ended by raising and a later processMessage call
\* has started a new one.
FlagTracksDrainLoopWitness ==
    /\ lastDrain.status = "raised"
    /\ processingQueue
    /\ \E c \in 1..Len(calls) : calls[c].status = "draining" /\ c > lastDrain.id

====
